---- MODULE Spec2Model ----
(***************************************************************************)
(* A model of the sayathing worker queue (src/worker/queue.py), its rows   *)
(* (src/worker/database.py) and its two workers (src/worker/workers).      *)
(*                                                                         *)
(* Time is in milliseconds, as _current_timestamp_ms returns it.  A queue  *)
(* operation is one atomic action where no other call's statement comes    *)
(* between its statements: dequeue and retry are one statement each, and   *)
(* the other calls are taken alone.  _update_task_state is two actions,    *)
(* because its session block ends (commit, close: two awaits) before it    *)
(* validates and writes, and SpecErrors takes mark_as_retry as the two     *)
(* statements it is, a SELECT and an UPDATE.                               *)
(*                                                                         *)
(* The specifications share the state:                                     *)
(*   Spec         any interleaving of the queue's operations and the       *)
(*                clock;                                                   *)
(*   SpecConc     several callers of one call (dequeue, retry,             *)
(*                mark_as_complete) on one table;                          *)
(*   LiveSpec     the primary and the retry worker, scheduled fairly;      *)
(*   SpecRounds   one task through rounds of dequeue, mark_as_retry,       *)
(*                retry;                                                   *)
(*   StopSpec     the two workers and their shutdown events;               *)
(*   SpecBatch    the two workers on a table of two tasks;                 *)
(*   SpecRestart  a queue closed and opened again on one database file;    *)
(*   SpecStart    the start of the components of one process;              *)
(*   SpecItems    tasks of several items and their item_count;             *)
(*   SpecErrors   mark_as_retry calls whose statements interleave;         *)
(*   SpecSynth    the workers' synthesis item by item, with shutdown;      *)
(*   SpecDeliveries  the workers, with each row's entries into PROCESSING  *)
(*                counted;                                                 *)
(*   SpecResume   the workers and a caller of mark_as_resume, scheduled    *)
(*                fairly;                                                  *)
(*   SpecLease    several workers that dequeue and mark, and retry, which  *)
(*                reclaims their leases.                                   *)
(***************************************************************************)
EXTENDS Integers, Sequences, FiniteSets, TLC

\* ------------------------------------------------------------------ bounds
MaxTasks == 1
MaxRows == 2
MaxCallers == 2
MaxTicks == 2
MaxSize == 2
MaxAttemptsBound == 3
MaxAttemptsCap == 8
MaxErrors == 2
BatchMaxAttempts == 2
MaxWorkers == 2
MaxItems == 2
MaxLeases == 3

\* ------------------------------------------------------- program constants
retry_base_delay == 60
retry_backoff_multiplier == 2
max_retry_delay == 3600
default_visibility_timeout == 3600
worker_batch_size == 5
retry_worker_batch_size == 5
retry_worker_visibility_timeout == 3600

Null == -1

PENDING == "PENDING"
PROCESSING == "PROCESSING"
COMPLETED == "COMPLETED"
RETRYABLE == "RETRYABLE"
CANCELLED == "CANCELLED"
DISCARDED == "DISCARDED"

TaskState == {DISCARDED, CANCELLED, PENDING, PROCESSING, COMPLETED, RETRYABLE}

TaskIds == 1..MaxTasks
NoRow == [state |-> "NONE"]

Min(a, b) == IF a <= b THEN a ELSE b

RECURSIVE Pow(_, _)
Pow(b, e) == IF e <= 0 THEN 1 ELSE b * Pow(b, e - 1)

\* ---------------------------------------------------------------- state
VARIABLES
    now,           \* the wall clock, ms
    ticks,         \* how many times the clock has advanced
    max_attempts,  \* the configured max_attempts of this process
    tasks,         \* the tasks table: id -> row, or NoRow
    upd,           \* the _update_task_state call between its read and its write
    scenario,      \* the call the concurrent callers make: its name, its size
    tasks0,        \* the table the concurrent callers started from
    got,           \* what each call made so far returned, in commit order
    primary,       \* the primary worker: its place in run, the batch it holds
    retrier,       \* the retry worker: its place in run, its batch, its task
    shutdown,      \* the workers whose shutdown event is set
    handles,       \* the DatabaseManager instances of the process and their holders
    marks,         \* the mark_as_retry calls between their SELECT and their UPDATE
    synth,         \* each worker's process_task calls: items done, one under way
    entered        \* history: how often each row has entered PROCESSING

vars == <<now, ticks, max_attempts, tasks, upd, scenario, tasks0, got, primary, retrier,
          shutdown, handles, marks, synth, entered>>
conc == <<scenario, tasks0, got>>
workers == <<primary, retrier, shutdown, handles, marks, synth>>

Present(rows) == {i \in DOMAIN rows : rows[i] # NoRow}

\* ---------------------------------------------------------------- helpers
\* A delay that max_retry_delay does not cap: what C8 tells from the code's.
UncappedRetryDelay(attempt_count) ==
    retry_base_delay * Pow(retry_backoff_multiplier, attempt_count) * 1000

_calculate_retry_delay(attempt_count) ==
    Min(retry_base_delay * Pow(retry_backoff_multiplier, attempt_count),
        max_retry_delay) * 1000

\* A LIMIT n without the ORDER BY: any n of the rows E.  What C31 tells from
\* the code's.
LimitUnordered(rows, E, n) ==
    {S \in SUBSET E : Cardinality(S) = Min(n, Cardinality(E))}

\* ORDER BY created_at ASC LIMIT n over the rows E: created_at ties come in
\* no defined order.
OrderLimit(rows, E, n) ==
    {S \in SUBSET E :
        /\ Cardinality(S) = Min(n, Cardinality(E))
        /\ \A i \in S : \A j \in E \ S : rows[i].created_at <= rows[j].created_at}

\* What a call leaves and gives back: the table, the ids of the rows it
\* returns (their rows are the table's rows, RETURNING * gives the updated
\* ones), and the exception it raises.
Outcome(rows, ids, err) == [tasks |-> rows, ids |-> ids, err |-> err]

\* ---------------------------------------------------------------- enqueue
\* What the callers of this repository hand to enqueue: an empty id (minted)
\* or an explicit one, schedule_at 0 or a time of their own, the state of
\* their task object, and item_count = len(items) of their one item.
CallerIds == {0} \cup TaskIds
CallerStates == {PENDING, RETRYABLE}
CallerSchedules(current_time) == {0, current_time + retry_base_delay * 1000}
CallerTasks(current_time) ==
    [id : CallerIds, schedule_at : CallerSchedules(current_time), state : CallerStates,
     attempt_count : {0}, attempted_at : {Null}, attempted_error : {<<>>},
     finalized_at : {Null}, items : {<<"">>}, item_count : {1}]

Batches(current_time) ==
    {<<>>} \cup {<<a>> : a \in CallerTasks(current_time)}
           \cup {<<a, b>> : a \in {c \in CallerTasks(current_time) : c.id = 0},
                            b \in {c \in CallerTasks(current_time) :
                                      c.id = 0 /\ c.schedule_at = 0 /\ c.state = PENDING}}

ExplicitIds(batch) == {batch[k].id : k \in DOMAIN batch} \ {0}

\* ulid.new(): an id no row and no task of the batch has.
RECURSIVE MintIds(_, _, _)
MintIds(batch, ids, used) ==
    IF batch = <<>> THEN <<>>
    ELSE IF Head(batch).id # 0
         THEN <<Head(batch).id>> \o MintIds(Tail(batch), ids, used)
         ELSE LET fresh == CHOOSE i \in ids \ used : \A j \in ids \ used : i <= j
              IN  <<fresh>> \o MintIds(Tail(batch), ids, used \cup {fresh})

\* enqueue's loop over the tasks: it stamps created_at and updated_at, and
\* schedule_at when the caller left it 0.
StampTask(task, current_time) ==
    [state |-> task.state,
     schedule_at |-> IF task.schedule_at = 0 THEN current_time ELSE task.schedule_at,
     attempt_count |-> task.attempt_count,
     attempted_at |-> task.attempted_at,
     attempted_error |-> task.attempted_error,
     finalized_at |-> task.finalized_at,
     items |-> task.items,
     item_count |-> task.item_count,
     created_at |-> current_time,
     updated_at |-> current_time]

\* TaskModel.from_task: the row holds the task's fields as they are.
from_task(task) ==
    [state |-> task.state,
     schedule_at |-> task.schedule_at,
     attempt_count |-> task.attempt_count,
     attempted_at |-> task.attempted_at,
     attempted_error |-> task.attempted_error,
     finalized_at |-> task.finalized_at,
     items |-> task.items,
     item_count |-> task.item_count,
     created_at |-> task.created_at,
     updated_at |-> task.updated_at]

EnqueueRows(rows, batch, ids, current_time) ==
    [i \in DOMAIN rows |->
        IF \E k \in DOMAIN batch : ids[k] = i
        THEN from_task(StampTask(batch[CHOOSE k \in DOMAIN batch : ids[k] = i],
                                 current_time))
        ELSE rows[i]]

\* The ids the table has room for: the model's table holds MaxTasks rows.
CanMint(rows, batch) ==
    Cardinality({k \in DOMAIN batch : batch[k].id = 0})
        <= Cardinality(DOMAIN rows \ (Present(rows) \cup ExplicitIds(batch)))

enqueue(rows, batch, current_time) ==
    IF batch = <<>> THEN {Outcome(rows, {}, "")}
    ELSE LET ids == MintIds(batch, DOMAIN rows, Present(rows) \cup ExplicitIds(batch))
             idset == {ids[k] : k \in DOMAIN ids}
         IN  IF idset \cap Present(rows) # {}
             THEN \* IntegrityError at flush; the handler's SELECT runs on a
                  \* session whose transaction the failed flush rolled back
                  {Outcome(rows, {}, "PendingRollbackError")}
             ELSE {Outcome(EnqueueRows(rows, batch, ids, current_time), idset, "")}

\* ---------------------------------------------------------------- dequeue
DequeueEligible(rows, current_time) ==
    {i \in Present(rows) :
        rows[i].state = PENDING /\ rows[i].schedule_at <= current_time}

DequeueSelect(rows, current_time, size) ==
    OrderLimit(rows, DequeueEligible(rows, current_time), size)

\* An UPDATE that stamps the rows and leaves their state: what C1 tells from
\* the code's.
DequeueUpdateKeepsState(rows, S, current_time) ==
    [i \in DOMAIN rows |->
        IF i \in S /\ rows[i].state = PENDING
        THEN [rows[i] EXCEPT !.updated_at = current_time]
        ELSE rows[i]]

\* UPDATE tasks SET state, updated_at WHERE id IN selected AND state = PENDING
DequeueUpdate(rows, S, current_time) ==
    [i \in DOMAIN rows |->
        IF i \in S /\ rows[i].state = PENDING
        THEN [rows[i] EXCEPT !.state = PROCESSING, !.updated_at = current_time]
        ELSE rows[i]]

\* A dequeue without the test of its size, whose statement SQLite runs with
\* the size as its LIMIT, a negative LIMIT being none: what C24 tells from
\* the code's.
dequeue_unguarded(rows, size, current_time) ==
    LET limit == IF size < 0 THEN Cardinality(DOMAIN rows) ELSE size
    IN  {Outcome(DequeueUpdate(rows, S, current_time), S, "") :
            S \in DequeueSelect(rows, current_time, limit)}

dequeue(rows, size, current_time) ==
    IF size <= 0 THEN {Outcome(rows, {}, "")}
    ELSE {Outcome(DequeueUpdate(rows, S, current_time), S, "") :
             S \in DequeueSelect(rows, current_time, size)}

\* ------------------------------------------------------------------ retry
\* The row predicate of retry's CTE, repeated in its UPDATE's WHERE.
RetryGuard(r, stale_cutoff) ==
    \/ r.state = RETRYABLE
    \/ r.state = PROCESSING /\ r.schedule_at < stale_cutoff

RetryEligible(rows, current_time, stale_cutoff, max) ==
    {i \in Present(rows) :
        /\ RetryGuard(rows[i], stale_cutoff)
        /\ rows[i].schedule_at <= current_time
        /\ rows[i].attempt_count < max}

RetrySelect(rows, current_time, stale_cutoff, max, size) ==
    OrderLimit(rows, RetryEligible(rows, current_time, stale_cutoff, max), size)

\* CASE WHEN (attempt_count + 1) = attempt + 1 THEN current_time + delay ...
\* ELSE current_time END, one WHEN for each attempt in range(max_attempts - 1)
schedule_case(attempt_count, current_time, max) ==
    IF \E attempt \in 0..(max - 2) : attempt_count + 1 = attempt + 1
    THEN current_time + _calculate_retry_delay(attempt_count)
    ELSE current_time

\* A SET clause that counts the attempt and leaves the state: what C10 tells
\* from the code's.
RetryRowKeepsState(r, current_time, max) ==
    [r EXCEPT
        !.attempt_count = r.attempt_count + 1,
        !.attempted_at = current_time,
        !.updated_at = current_time]

\* The SET clause of retry's UPDATE; every right-hand side reads the old row.
RetryRow(r, current_time, max) ==
    [r EXCEPT
        !.state = IF r.attempt_count + 1 >= max THEN DISCARDED ELSE PENDING,
        !.schedule_at = IF r.attempt_count + 1 >= max THEN r.schedule_at
                        ELSE schedule_case(r.attempt_count, current_time, max),
        !.finalized_at = IF r.attempt_count + 1 >= max THEN current_time
                         ELSE r.finalized_at,
        !.attempt_count = r.attempt_count + 1,
        !.attempted_at = current_time,
        !.updated_at = current_time]

RetryUpdate(rows, S, current_time, stale_cutoff, max) ==
    [i \in DOMAIN rows |->
        IF i \in S /\ RetryGuard(rows[i], stale_cutoff)
        THEN RetryRow(rows[i], current_time, max)
        ELSE rows[i]]

\* "CASE ELSE x END", which range(max_attempts - 1) leaves when it is empty,
\* is no SQL: the statement fails and retry raises QueueError.
RetryStatementFails(max) == max - 1 < 1

retry(rows, size, visibility_timeout, max, current_time) ==
    LET stale_cutoff == current_time - visibility_timeout * 1000
    IN  IF size <= 0 THEN {Outcome(rows, {}, "")}
        ELSE IF RetryStatementFails(max) THEN {Outcome(rows, {}, "QueueError")}
        ELSE {Outcome(RetryUpdate(rows, S, current_time, stale_cutoff, max), S, "") :
                 S \in RetrySelect(rows, current_time, stale_cutoff, max, size)}

\* ------------------------------------------- mark_as_complete, mark_as_retry
ItemChoices == {<<"data:audio/wav;base64">>}
Errors == {"boom"}

\* A mark_as_complete that finalizes the row and leaves its items: what C20
\* tells from the code's.
mark_as_complete_keeps_items(rows, id, items, current_time) ==
    IF rows[id] = NoRow THEN {Outcome(rows, {}, "TaskNotFoundError")}
    ELSE IF rows[id].state # PROCESSING
    THEN {Outcome(rows, {}, "InvalidStateTransitionError")}
    ELSE {Outcome([rows EXCEPT ![id] = [@ EXCEPT !.state = COMPLETED,
                                                 !.finalized_at = current_time,
                                                 !.updated_at = current_time]],
                  {id}, "")}

mark_as_complete(rows, id, items, current_time) ==
    IF rows[id] = NoRow THEN {Outcome(rows, {}, "TaskNotFoundError")}
    ELSE IF rows[id].state # PROCESSING
    THEN {Outcome(rows, {}, "InvalidStateTransitionError")}
    ELSE {Outcome([rows EXCEPT ![id] = [@ EXCEPT !.state = COMPLETED,
                                                 !.items = items,
                                                 !.finalized_at = current_time,
                                                 !.updated_at = current_time]],
                  {id}, "")}

\* A mark_as_retry that counts the attempt and schedules the next one, which
\* the code leaves to retry: what C21 tells from the code's.
mark_as_retry_counts_attempt(rows, id, error, current_time) ==
    IF rows[id] = NoRow THEN {Outcome(rows, {}, "TaskNotFoundError")}
    ELSE IF rows[id].state # PROCESSING
    THEN {Outcome(rows, {}, "InvalidStateTransitionError")}
    ELSE {Outcome([rows EXCEPT ![id] = [@ EXCEPT !.state = RETRYABLE,
                                                 !.attempt_count = @ + 1,
                                                 !.attempted_at = current_time,
                                                 !.attempted_error = Append(@, error),
                                                 !.updated_at = current_time]],
                  {id}, "")}

\* A mark_as_retry that stores the items the worker holds: what C15 tells
\* from the code's.
mark_as_retry_with_items(rows, id, error, current_time) ==
    IF rows[id] = NoRow THEN {Outcome(rows, {}, "TaskNotFoundError")}
    ELSE IF rows[id].state # PROCESSING
    THEN {Outcome(rows, {}, "InvalidStateTransitionError")}
    ELSE {Outcome([rows EXCEPT ![id] = [@ EXCEPT !.state = RETRYABLE,
                                                 !.items = items,
                                                 !.attempted_error = Append(@, error),
                                                 !.updated_at = current_time]],
                  {id}, "") : items \in ItemChoices}

mark_as_retry(rows, id, error, current_time) ==
    IF rows[id] = NoRow THEN {Outcome(rows, {}, "TaskNotFoundError")}
    ELSE IF rows[id].state # PROCESSING
    THEN {Outcome(rows, {}, "InvalidStateTransitionError")}
    ELSE {Outcome([rows EXCEPT ![id] = [@ EXCEPT !.state = RETRYABLE,
                                                 !.attempted_error = Append(@, error),
                                                 !.updated_at = current_time]],
                  {id}, "")}

\* ------------------------------------------------------ _update_task_state
\* The callers of _update_task_state: new_state, expected_state, finalize,
\* reset_schedule.
mark_as_cancelled ==
    [name |-> "mark_as_cancelled", new_state |-> CANCELLED, expected_state |-> PENDING,
     finalize |-> TRUE, reset_schedule |-> FALSE]
mark_as_discarded ==
    [name |-> "mark_as_discarded", new_state |-> DISCARDED, expected_state |-> PROCESSING,
     finalize |-> TRUE, reset_schedule |-> FALSE]
mark_as_resume ==
    [name |-> "mark_as_resume", new_state |-> PENDING, expected_state |-> DISCARDED,
     finalize |-> FALSE, reset_schedule |-> TRUE]
_claim_task_for_processing ==
    [name |-> "_claim_task_for_processing", new_state |-> PROCESSING,
     expected_state |-> PENDING, finalize |-> FALSE, reset_schedule |-> FALSE]

UpdateKinds == {mark_as_cancelled, mark_as_discarded, mark_as_resume}

NoUpdate == [name |-> "none"]

\* A check that takes the row in any state: what C13 tells from the code's.
update_read_any_state(rows, id, kind) ==
    IF rows[id] = NoRow THEN "TaskNotFoundError" ELSE ""

\* The session block of _update_task_state (SELECT the row, raise
\* TaskNotFoundError, commit, close) and the check of expected_state, which
\* reads the row object the block loaded: the exception raised, "" when none.
update_read(rows, id, kind) ==
    IF rows[id] = NoRow THEN "TaskNotFoundError"
    ELSE IF rows[id].state # kind.expected_state THEN "InvalidStateTransitionError"
    ELSE ""

\* update(TaskModel).where(TaskModel.id == task_id).values(**update_values)
update_values(r, kind, current_time) ==
    [r EXCEPT
        !.state = kind.new_state,
        !.updated_at = current_time,
        !.finalized_at = IF kind.finalize THEN current_time ELSE @,
        !.schedule_at = IF kind.reset_schedule THEN current_time ELSE @]

\* The UPDATE after the session block: the closed session begins a new
\* transaction for it that nothing commits.  It reaches the table when the
\* connection is the one every session shares (the next commit carries it),
\* and is rolled back when the connection is dropped with the session.
update_write(rows, id, kind, current_time) ==
    {Outcome([rows EXCEPT ![id] = update_values(@, kind, current_time)], {id}, ""),
     Outcome(rows, {id}, "")}

\* One call of _update_task_state that no other call comes between: what it
\* leaves and returns.
_update_task_state(rows, id, kind, current_time) ==
    IF update_read(rows, id, kind) # ""
    THEN {Outcome(rows, {}, update_read(rows, id, kind))}
    ELSE update_write(rows, id, kind, current_time)

\* ---------------------------------------------------------------- actions
\* The history of deliveries: entered[i] counts the steps that took row i,
\* once enqueued, from another state to PROCESSING.  It is kept where the scenario asks for
\* it and stands still elsewhere.
NoEntries == [i \in 1..MaxRows |-> 0]
DeliveriesScenario == [op |-> "deliveries", size |-> 1]

CountEntries ==
    entered' = IF scenario # DeliveriesScenario THEN entered
               ELSE [i \in DOMAIN entered |->
                        IF /\ i \in Present(tasks)
                           /\ tasks[i].state # PROCESSING
                           /\ tasks'[i].state = PROCESSING
                        THEN entered[i] + 1
                        ELSE entered[i]]

TickSteps == {retry_base_delay * 1000, default_visibility_timeout * 1000}

Tick(d) ==
    /\ ticks < MaxTicks
    /\ now' = now + d
    /\ ticks' = ticks + 1
    /\ UNCHANGED <<max_attempts, tasks, upd, conc, workers>>
    /\ CountEntries

Enqueue(batch) ==
    /\ CanMint(tasks, batch)
    /\ \E o \in enqueue(tasks, batch, now) : tasks' = o.tasks
    /\ UNCHANGED <<now, ticks, max_attempts, upd, conc, workers>>
    /\ CountEntries

Dequeue(size) ==
    /\ \E o \in dequeue(tasks, size, now) : tasks' = o.tasks
    /\ UNCHANGED <<now, ticks, max_attempts, upd, conc, workers>>
    /\ CountEntries

Retry(size) ==
    /\ \E o \in retry(tasks, size, default_visibility_timeout, max_attempts, now) :
          tasks' = o.tasks
    /\ UNCHANGED <<now, ticks, max_attempts, upd, conc, workers>>
    /\ CountEntries

MarkComplete(id, items) ==
    /\ \E o \in mark_as_complete(tasks, id, items, now) : tasks' = o.tasks
    /\ UNCHANGED <<now, ticks, max_attempts, upd, conc, workers>>
    /\ CountEntries

MarkRetry(id, error) ==
    /\ tasks[id] # NoRow => Len(tasks[id].attempted_error) < MaxErrors
    /\ \E o \in mark_as_retry(tasks, id, error, now) : tasks' = o.tasks
    /\ UNCHANGED <<now, ticks, max_attempts, upd, conc, workers>>
    /\ CountEntries

UpdateRead(id, kind) ==
    /\ upd = NoUpdate
    /\ upd' = IF update_read(tasks, id, kind) = ""
              THEN [name |-> kind.name, id |-> id, kind |-> kind]
              ELSE NoUpdate
    /\ UNCHANGED <<now, ticks, max_attempts, tasks, conc, workers>>
    /\ CountEntries

\* RetryWorker: of the rows its retry call returned, those PENDING and due go
\* to _process_single_task, which claims the row first.
ClaimRead(id) ==
    /\ tasks[id] # NoRow
    /\ tasks[id].attempt_count >= 1
    /\ tasks[id].schedule_at <= now
    /\ UpdateRead(id, _claim_task_for_processing)

UpdateWrite ==
    /\ upd # NoUpdate
    /\ \E o \in update_write(tasks, upd.id, upd.kind, now) : tasks' = o.tasks
    /\ upd' = NoUpdate
    /\ UNCHANGED <<now, ticks, max_attempts, conc, workers>>
    /\ CountEntries

\* ------------------------------------------------------------ specification
\* The sizes callers pass: one below 0, 0, and up to MaxSize.
Sizes == -1..MaxSize

\* The components main.py's ServiceManager can run in its process: the HTTP
\* server, and primary and retry workers by number.
AllComponents ==
    {<<"http", 0>>} \cup {<<"primary", i>> : i \in 1..MaxWorkers}
                    \cup {<<"retry", i>> : i \in 1..MaxWorkers}

\* No component has started: no DatabaseManager has been constructed (made
\* counts them, an instance is its number), the container's Singleton
\* provider holds none (0), and no component holds one.
NoHandles ==
    [run |-> {}, made |-> 0, singleton |-> 0, held |-> [c \in AllComponents |-> {}]]

\* No mark_as_retry call is between its SELECT and its UPDATE.
NoMark == [id |-> 0]
NoMarks == [c \in 1..MaxCallers |-> NoMark]

NoScenario == [op |-> "none", size |-> 0]
Workers == {"primary", "retry"}
NotStarted == [done |-> 0, running |-> FALSE]
NoSynth == [w \in Workers |-> [i \in 1..MaxRows |-> NotStarted]]

PrimaryIdle == [pc |-> "poll", batch |-> {}]
RetrierIdle == [pc |-> "poll", batch |-> {}, cur |-> 0]

Init ==
    /\ now = 1
    /\ ticks = 0
    /\ max_attempts \in 1..MaxAttemptsBound
    /\ tasks = [i \in TaskIds |-> NoRow]
    /\ upd = NoUpdate
    /\ scenario = NoScenario
    /\ tasks0 = tasks
    /\ got = <<>>
    /\ primary = PrimaryIdle
    /\ retrier = RetrierIdle
    /\ shutdown = {}
    /\ handles = NoHandles
    /\ marks = NoMarks
    /\ synth = NoSynth
    /\ entered = NoEntries

Next ==
    \/ \E d \in TickSteps : Tick(d)
    \/ \E batch \in Batches(now) : Enqueue(batch)
    \/ \E size \in Sizes : Dequeue(size)
    \/ \E size \in Sizes : Retry(size)
    \/ \E id \in TaskIds, items \in ItemChoices : MarkComplete(id, items)
    \/ \E id \in TaskIds, error \in Errors : MarkRetry(id, error)
    \/ \E id \in TaskIds, kind \in UpdateKinds : UpdateRead(id, kind)
    \/ \E id \in TaskIds : ClaimRead(id)
    \/ UpdateWrite

Spec == Init /\ [][Next]_vars

\* ------------------------------------------- concurrent callers of one call
\* Several callers make the same call, dequeue(size), retry(size) or
\* mark_as_complete, on a table of rows the queue's operations leave.  A
\* dequeue or a retry is one statement, which SQLite runs under the database
\* lock; a mark_as_complete is taken whole, one call after another.  The
\* calls take effect in any order, and the clock may advance between two of
\* them.
NowConc == 1 + default_visibility_timeout * 1000 + retry_base_delay * 1000

\* schedule_at: stale at NowConc, stale after one more minute, due, not due.
ConcSchedules ==
    {1, NowConc - default_visibility_timeout * 1000, NowConc,
     NowConc + retry_base_delay * 1000}
ConcCreated == {1, NowConc - default_visibility_timeout * 1000}

ConcMaxAttempts == (1..MaxAttemptsBound) \cup {MaxAttemptsCap}

\* attempt_count: retry at max_attempts = 1 counts nothing; a larger
\* max_attempts counts up to max_attempts, and mark_as_resume keeps the count.
ConcAttemptCounts(max) ==
    IF max = 1 THEN {0} ELSE {c \in {0, 1, max - 2, max - 1, max} : c >= 0}

ConcStates == {PENDING, PROCESSING, RETRYABLE}

ConcRow(state, schedule_at, attempt_count, created_at, max) ==
    [state |-> state,
     schedule_at |-> schedule_at,
     attempt_count |-> attempt_count,
     attempted_at |-> IF attempt_count = 0 THEN Null ELSE created_at,
     attempted_error |-> <<>>,
     finalized_at |-> IF attempt_count = max THEN created_at ELSE Null,
     items |-> <<"">>,
     item_count |-> 1,
     created_at |-> created_at,
     updated_at |-> created_at]

ConcRows(max) ==
    {ConcRow(st, s, c, cr, max) :
        st \in ConcStates, s \in ConcSchedules, c \in ConcAttemptCounts(max),
        cr \in ConcCreated} \
    {r \in {ConcRow(st, s, c, cr, max) :
               st \in ConcStates, s \in ConcSchedules, c \in ConcAttemptCounts(max),
               cr \in ConcCreated} :
        \/ r.created_at > r.schedule_at
        \/ r.state = PROCESSING /\ r.schedule_at > NowConc}

Returned(o) == [ids |-> o.ids, err |-> o.err]

DequeueCall ==
    /\ scenario.op = "dequeue"
    /\ Len(got) < MaxCallers
    /\ \E o \in dequeue(tasks, scenario.size, now) :
          /\ tasks' = o.tasks
          /\ got' = Append(got, Returned(o))
    /\ UNCHANGED <<now, ticks, max_attempts, upd, scenario, tasks0, workers>>
    /\ CountEntries

RetryCall ==
    /\ scenario.op = "retry"
    /\ Len(got) < MaxCallers
    /\ \E o \in retry(tasks, scenario.size, default_visibility_timeout,
                      max_attempts, now) :
          /\ tasks' = o.tasks
          /\ got' = Append(got, Returned(o))
    /\ UNCHANGED <<now, ticks, max_attempts, upd, scenario, tasks0, workers>>
    /\ CountEntries

CompleteCall(id, items) ==
    /\ scenario.op = "complete"
    /\ Len(got) < MaxCallers
    /\ \E o \in mark_as_complete(tasks, id, items, now) :
          /\ tasks' = o.tasks
          /\ got' = Append(got, Returned(o))
    /\ UNCHANGED <<now, ticks, max_attempts, upd, scenario, tasks0, workers>>
    /\ CountEntries

ConcTick(d) ==
    /\ Len(got) < MaxCallers
    /\ Tick(d)

ConcInit ==
    /\ now = NowConc
    /\ ticks = 0
    /\ scenario \in [op : {"dequeue", "retry", "complete"}, size : 1..MaxSize]
    /\ max_attempts \in ConcMaxAttempts
    /\ scenario.op = "dequeue" => max_attempts = MaxAttemptsBound
    /\ scenario.op = "complete" => (max_attempts = MaxAttemptsBound /\ scenario.size = 1)
    /\ tasks \in [1..MaxRows -> ConcRows(max_attempts) \cup {NoRow}]
    /\ upd = NoUpdate
    /\ tasks0 = tasks
    /\ got = <<>>
    /\ primary = PrimaryIdle
    /\ retrier = RetrierIdle
    /\ shutdown = {}
    /\ handles = NoHandles
    /\ marks = NoMarks
    /\ synth = NoSynth
    /\ entered = NoEntries

ConcNext ==
    \/ DequeueCall
    \/ RetryCall
    \/ \E id \in 1..MaxRows, items \in ItemChoices : CompleteCall(id, items)
    \/ \E d \in TickSteps : ConcTick(d)

SpecConc == ConcInit /\ [][ConcNext]_vars

\* ------------------------------------------------------------- the workers
\* PrimaryWorker._process_single_task: process_task, then
\* mark_as_complete(task.id) when it succeeded.  mark_as_complete reads
\* task.id of its argument, which here is the id itself, a str: it raises
\* AttributeError before it reaches the table, and the handler calls
\* mark_as_retry.  A failed process_task calls mark_as_retry too.
primary_process_single_task(rows, id, success, current_time) ==
    mark_as_retry(rows, id,
                  IF success THEN "Error processing task" ELSE "Processing failed",
                  current_time)

\* RetryWorker._process_single_task after its claim: mark_as_complete(task)
\* when process_task succeeded, mark_as_retry when it failed or when
\* mark_as_complete raised.
retry_process_single_task(rows, id, success, current_time) ==
    LET done == mark_as_complete(rows, id, CHOOSE x \in ItemChoices : TRUE, current_time)
    IN  IF success /\ \A o \in done : o.err = ""
        THEN done
        ELSE mark_as_retry(rows, id,
                           IF success THEN "Error processing retry task"
                           ELSE "Retry processing failed",
                           current_time)

\* The task objects retry returned, as the worker's filter reads them.
Snapshot(rows, ids) ==
    {[id |-> i, state |-> rows[i].state, schedule_at |-> rows[i].schedule_at] :
        i \in ids}

pending_tasks(batch, current_time) ==
    {t \in batch : t.state = PENDING /\ t.schedule_at <= current_time}

PrimaryDequeue ==
    /\ primary.pc = "poll"
    /\ \E o \in dequeue(tasks, worker_batch_size, now) :
          /\ tasks' = o.tasks
          /\ primary' = IF o.ids = {} THEN [pc |-> "wait", batch |-> {}]
                        ELSE [pc |-> "process", batch |-> o.ids]
    /\ UNCHANGED <<now, ticks, max_attempts, upd, conc, retrier, shutdown, handles, marks, synth>>
    /\ CountEntries

PrimaryWait ==
    /\ primary.pc = "wait"
    /\ primary' = PrimaryIdle
    /\ UNCHANGED <<now, ticks, max_attempts, tasks, upd, conc, retrier, shutdown, handles, marks, synth>>
    /\ CountEntries

\* A batch that an exception of one task's mark_as_retry ends, as gather
\* without return_exceptions would: what C23 tells from the code's.
PrimaryProcessAbortsBatch(id, success) ==
    /\ primary.pc = "process"
    /\ id \in primary.batch
    /\ \E o \in primary_process_single_task(tasks, id, success, now) :
          /\ tasks' = o.tasks
          /\ primary' = IF primary.batch = {id} \/ o.err # "" THEN PrimaryIdle
                        ELSE [primary EXCEPT !.batch = @ \ {id}]
    /\ UNCHANGED <<now, ticks, max_attempts, upd, conc, retrier, shutdown, handles, marks, synth>>
    /\ CountEntries

PrimaryProcessSingleTask(id, success) ==
    /\ primary.pc = "process"
    /\ id \in primary.batch
    /\ \E o \in primary_process_single_task(tasks, id, success, now) : tasks' = o.tasks
    /\ primary' = IF primary.batch = {id} THEN PrimaryIdle
                  ELSE [primary EXCEPT !.batch = @ \ {id}]
    /\ UNCHANGED <<now, ticks, max_attempts, upd, conc, retrier, shutdown, handles, marks, synth>>
    /\ CountEntries

RetryPoll ==
    /\ retrier.pc = "poll"
    /\ \E o \in retry(tasks, retry_worker_batch_size, retry_worker_visibility_timeout,
                      max_attempts, now) :
          /\ tasks' = o.tasks
          /\ retrier' = IF o.err # "" THEN [RetrierIdle EXCEPT !.pc = "backoff"]
                        ELSE IF o.ids = {} THEN [RetrierIdle EXCEPT !.pc = "wait"]
                        ELSE [pc |-> "filter", batch |-> Snapshot(o.tasks, o.ids),
                              cur |-> 0]
    /\ UNCHANGED <<now, ticks, max_attempts, upd, conc, primary, shutdown, handles, marks, synth>>
    /\ CountEntries

RetryWait ==
    /\ retrier.pc = "wait"
    /\ retrier' = RetrierIdle
    /\ UNCHANGED <<now, ticks, max_attempts, tasks, upd, conc, primary, shutdown, handles, marks, synth>>
    /\ CountEntries

RetryBackoff ==
    /\ retrier.pc = "backoff"
    /\ retrier' = RetrierIdle
    /\ UNCHANGED <<now, ticks, max_attempts, tasks, upd, conc, primary, shutdown, handles, marks, synth>>
    /\ CountEntries

RetryFilter ==
    /\ retrier.pc = "filter"
    /\ retrier' = IF pending_tasks(retrier.batch, now) = {} THEN RetrierIdle
                  ELSE [pc |-> "process", batch |-> pending_tasks(retrier.batch, now),
                        cur |-> 0]
    /\ UNCHANGED <<now, ticks, max_attempts, tasks, upd, conc, primary, shutdown, handles, marks, synth>>
    /\ CountEntries

RetrierAfter(t) ==
    IF retrier.batch = {t} THEN RetrierIdle
    ELSE [pc |-> "process", batch |-> retrier.batch \ {t}, cur |-> 0]

\* _claim_task_for_processing up to its check of expected_state; when it
\* raises, the handler of _process_single_task calls mark_as_retry.
RetryClaim(t) ==
    /\ retrier.pc = "process"
    /\ t \in retrier.batch
    /\ upd = NoUpdate
    /\ IF update_read(tasks, t.id, _claim_task_for_processing) = ""
       THEN /\ upd' = [name |-> _claim_task_for_processing.name, id |-> t.id,
                       kind |-> _claim_task_for_processing]
            /\ retrier' = [retrier EXCEPT !.pc = "claiming", !.cur = t]
            /\ tasks' = tasks
       ELSE /\ \E o \in mark_as_retry(tasks, t.id, "Error processing retry task", now) :
                  tasks' = o.tasks
            /\ retrier' = RetrierAfter(t)
            /\ upd' = upd
    /\ UNCHANGED <<now, ticks, max_attempts, conc, primary, shutdown, handles, marks, synth>>
    /\ CountEntries

RetryProcessSingleTask(success) ==
    /\ retrier.pc = "claiming"
    /\ upd = NoUpdate
    /\ \E o \in retry_process_single_task(tasks, retrier.cur.id, success, now) :
          tasks' = o.tasks
    /\ retrier' = RetrierAfter(retrier.cur)
    /\ UNCHANGED <<now, ticks, max_attempts, upd, conc, primary, shutdown, handles, marks, synth>>
    /\ CountEntries

\* The clock at the instants that matter to a row: it advances to the next
\* time at which a row that waits on it (not yet due, or leased and not yet
\* stale) stops waiting.
WakeTimes(rows, current_time) ==
    {rows[i].schedule_at : i \in {j \in Present(rows) :
        rows[j].state \in {PENDING, RETRYABLE} /\ rows[j].schedule_at > current_time}}
    \cup
    {rows[i].schedule_at + retry_worker_visibility_timeout * 1000 + 1 :
        i \in {j \in Present(rows) :
            /\ rows[j].state = PROCESSING
            /\ rows[j].schedule_at >= current_time - retry_worker_visibility_timeout * 1000}}

Advance ==
    /\ WakeTimes(tasks, now) # {}
    /\ now' = CHOOSE t \in WakeTimes(tasks, now) : \A u \in WakeTimes(tasks, now) : t <= u
    /\ UNCHANGED <<ticks, max_attempts, tasks, upd, conc, workers>>
    /\ CountEntries

PrimaryRun ==
    \/ PrimaryDequeue
    \/ PrimaryWait
    \/ \E id \in DOMAIN tasks, success \in BOOLEAN : PrimaryProcessSingleTask(id, success)

RetryRun ==
    \/ RetryPoll
    \/ RetryWait
    \/ RetryBackoff
    \/ RetryFilter
    \/ \E t \in retrier.batch : RetryClaim(t)
    \/ \E success \in BOOLEAN : RetryProcessSingleTask(success)

LiveNext ==
    \/ \E batch \in Batches(now) : Enqueue(batch)
    \/ PrimaryRun
    \/ RetryRun
    \/ UpdateWrite
    \/ Advance

\* Both workers run (asyncio schedules each ready coroutine), the write of a
\* claim follows its read, and the clock advances.
LiveSpec ==
    /\ Init
    /\ [][LiveNext]_vars
    /\ WF_vars(PrimaryRun)
    /\ WF_vars(RetryRun)
    /\ WF_vars(UpdateWrite)
    /\ WF_vars(Advance)

\* The workers and the clock as in LiveSpec, with the history of deliveries
\* kept: no call of mark_as_resume, and every retry call with the one
\* max_attempts of the process.
DeliveriesInit ==
    /\ now = 1
    /\ ticks = 0
    /\ max_attempts \in 1..MaxAttemptsBound
    /\ tasks = [i \in TaskIds |-> NoRow]
    /\ upd = NoUpdate
    /\ scenario = DeliveriesScenario
    /\ tasks0 = tasks
    /\ got = <<>>
    /\ primary = PrimaryIdle
    /\ retrier = RetrierIdle
    /\ shutdown = {}
    /\ handles = NoHandles
    /\ marks = NoMarks
    /\ synth = NoSynth
    /\ entered = NoEntries

SpecDeliveries == DeliveriesInit /\ [][LiveNext]_vars

\* The workers and the clock as in LiveSpec, and a caller that resumes
\* discarded tasks with mark_as_resume whenever it chooses.  max_attempts is
\* one with which retry builds its statement.
ResumeInit ==
    /\ now = 1
    /\ ticks = 0
    /\ max_attempts = BatchMaxAttempts
    /\ tasks = [i \in TaskIds |-> NoRow]
    /\ upd = NoUpdate
    /\ scenario = NoScenario
    /\ tasks0 = tasks
    /\ got = <<>>
    /\ primary = PrimaryIdle
    /\ retrier = RetrierIdle
    /\ shutdown = {}
    /\ handles = NoHandles
    /\ marks = NoMarks
    /\ synth = NoSynth
    /\ entered = NoEntries

\* RetryWorker.run where retry never raises: it has no error to back off
\* from.
ResumeRetryRun ==
    \/ RetryPoll
    \/ RetryWait
    \/ RetryFilter
    \/ \E t \in retrier.batch : RetryClaim(t)
    \/ \E success \in BOOLEAN : RetryProcessSingleTask(success)

ResumeNext ==
    \/ \E batch \in Batches(now) : Enqueue(batch)
    \/ \E id \in TaskIds : UpdateRead(id, mark_as_resume)
    \/ PrimaryRun
    \/ ResumeRetryRun
    \/ UpdateWrite
    \/ Advance

SpecResume ==
    /\ ResumeInit
    /\ [][ResumeNext]_vars
    /\ WF_vars(PrimaryRun)
    /\ WF_vars(ResumeRetryRun)
    /\ WF_vars(UpdateWrite)
    /\ WF_vars(Advance)

\* ---------------------------------------------------------------- shutdown
\* shutdown() of a worker, which the signal handler of the process calls: it
\* sets the worker's shutdown event.
Shutdown(w) ==
    /\ w \notin shutdown
    /\ shutdown' = shutdown \cup {w}
    /\ UNCHANGED <<now, ticks, max_attempts, tasks, upd, conc, primary, retrier, handles, marks, synth>>
    /\ CountEntries

\* A worker that waits out its poll delay when its event is set: what C22
\* tells from the code's.
PrimaryBreakWaits ==
    /\ primary.pc \in {"poll", "wait"}
    /\ "primary" \in shutdown
    /\ primary' = [pc |-> "wait", batch |-> {}]
    /\ UNCHANGED <<now, ticks, max_attempts, tasks, upd, conc, retrier, shutdown, handles, marks, synth>>
    /\ CountEntries

\* PrimaryWorker.run with its event set: the check at the top of the loop
\* breaks, and so does wait_for(self._shutdown_event.wait(), poll_delay),
\* which returns at once.
PrimaryBreak ==
    /\ primary.pc \in {"poll", "wait"}
    /\ "primary" \in shutdown
    /\ primary' = [pc |-> "stopped", batch |-> {}]
    /\ UNCHANGED <<now, ticks, max_attempts, tasks, upd, conc, retrier, shutdown, handles, marks, synth>>
    /\ CountEntries

\* RetryWorker.run with its event set: the check at the top of the loop and
\* the two waits (idle poll, backoff after an error) break.
RetryBreak ==
    /\ retrier.pc \in {"poll", "wait", "backoff"}
    /\ "retry" \in shutdown
    /\ retrier' = [RetrierIdle EXCEPT !.pc = "stopped"]
    /\ UNCHANGED <<now, ticks, max_attempts, tasks, upd, conc, primary, shutdown, handles, marks, synth>>
    /\ CountEntries

\* A worker's loop: where it reads its event, the set event decides.
PrimaryLoop ==
    \/ PrimaryBreak
    \/ /\ ~ (primary.pc \in {"poll", "wait"} /\ "primary" \in shutdown)
       /\ PrimaryRun

RetryLoop ==
    \/ RetryBreak
    \/ /\ ~ (retrier.pc \in {"poll", "wait", "backoff"} /\ "retry" \in shutdown)
       /\ RetryRun

StopNext ==
    \/ \E batch \in Batches(now) : Enqueue(batch)
    \/ \E w \in Workers : Shutdown(w)
    \/ PrimaryLoop
    \/ RetryLoop
    \/ UpdateWrite
    \/ Advance

\* The workers and the clock run as in LiveSpec; a shutdown may come at any
\* time, or never.
StopSpec ==
    /\ Init
    /\ [][StopNext]_vars
    /\ WF_vars(PrimaryLoop)
    /\ WF_vars(RetryLoop)
    /\ WF_vars(UpdateWrite)
    /\ WF_vars(Advance)

\* ------------------------------------------------- the workers on a batch
\* Both workers on a table of two tasks that are due, PENDING or RETRYABLE: a
\* batch holds two tasks, and one worker's calls can fail on a row the other
\* worker moved.  The clock advances MaxTicks times; retry never raises
\* here, so the retry worker never backs off.
BatchScenario == [op |-> "batch", size |-> MaxRows]

BatchRows ==
    {r \in ConcRows(BatchMaxAttempts) :
        /\ r.state \in {PENDING, RETRYABLE}
        /\ r.schedule_at = 1
        /\ r.attempt_count = 0
        /\ r.created_at = 1}

BatchInit ==
    /\ now = NowConc
    /\ ticks = 0
    /\ max_attempts = BatchMaxAttempts
    /\ tasks \in [1..MaxRows -> BatchRows]
    /\ upd = NoUpdate
    /\ scenario = BatchScenario
    /\ tasks0 = tasks
    /\ got = <<>>
    /\ primary = PrimaryIdle
    /\ retrier = RetrierIdle
    /\ shutdown = {}
    /\ handles = NoHandles
    /\ marks = NoMarks
    /\ synth = NoSynth
    /\ entered = NoEntries

BatchNext ==
    \/ PrimaryRun
    \/ RetryPoll
    \/ RetryWait
    \/ RetryFilter
    \/ \E t \in retrier.batch : RetryClaim(t)
    \/ \E success \in BOOLEAN : RetryProcessSingleTask(success)
    \/ UpdateWrite
    \/ \E d \in TickSteps : Tick(d)

SpecBatch == BatchInit /\ [][BatchNext]_vars

\* ------------------------------------------------------ rounds of one task
\* One caller enqueues one task and puts it through rounds of dequeue,
\* mark_as_retry and retry, as test_retry_mechanism does
\* round after round; between two rounds the clock advances past the task's
\* schedule_at.
RoundsScenario == [op |-> "rounds", size |-> 1]

\* What a call returned: the Task objects (to_task of the rows as the call
\* left them), the exception, and the time the call ran at.
Call(op, o, current_time) ==
    [op |-> op, at |-> current_time, ids |-> o.ids, err |-> o.err,
     rows |-> [i \in o.ids |-> o.tasks[i]]]

RoundTasks(current_time) ==
    {t \in CallerTasks(current_time) : t.id = 0 /\ t.schedule_at = 0 /\ t.state = PENDING}

RoundDequeue ==
    /\ scenario = RoundsScenario
    /\ Len(got) % 3 = 0
    /\ Len(got) < 3 * max_attempts
    /\ \A i \in Present(tasks) : tasks[i].schedule_at <= now
    /\ \E o \in dequeue(tasks, scenario.size, now) :
          /\ tasks' = o.tasks
          /\ got' = Append(got, Call("dequeue", o, now))
    /\ UNCHANGED <<now, ticks, max_attempts, upd, scenario, tasks0, workers>>
    /\ CountEntries

RoundMarkRetry(id, error) ==
    /\ scenario = RoundsScenario
    /\ Len(got) % 3 = 1
    /\ \E o \in mark_as_retry(tasks, id, error, now) :
          /\ tasks' = o.tasks
          /\ got' = Append(got, Call("mark_as_retry", o, now))
    /\ UNCHANGED <<now, ticks, max_attempts, upd, scenario, tasks0, workers>>
    /\ CountEntries

RoundRetry ==
    /\ scenario = RoundsScenario
    /\ Len(got) % 3 = 2
    /\ \E o \in retry(tasks, scenario.size, default_visibility_timeout,
                      max_attempts, now) :
          /\ tasks' = o.tasks
          /\ got' = Append(got, Call("retry", o, now))
    /\ UNCHANGED <<now, ticks, max_attempts, upd, scenario, tasks0, workers>>
    /\ CountEntries

\* The clock between two rounds: it reaches the task's schedule_at, or passes
\* it by a minute.
RoundAdvance(d) ==
    /\ scenario = RoundsScenario
    /\ Len(got) % 3 = 0
    /\ \E i \in Present(tasks) :
          /\ tasks[i].schedule_at > now
          /\ now' = tasks[i].schedule_at + d
    /\ UNCHANGED <<ticks, max_attempts, tasks, upd, conc, workers>>
    /\ CountEntries

RoundsInit ==
    /\ now = 1
    /\ ticks = 0
    /\ max_attempts \in 1..MaxAttemptsCap
    /\ \E t \in RoundTasks(now) :
          \E o \in enqueue([i \in TaskIds |-> NoRow], <<t>>, now) : tasks = o.tasks
    /\ upd = NoUpdate
    /\ scenario = RoundsScenario
    /\ tasks0 = tasks
    /\ got = <<>>
    /\ primary = PrimaryIdle
    /\ retrier = RetrierIdle
    /\ shutdown = {}
    /\ handles = NoHandles
    /\ marks = NoMarks
    /\ synth = NoSynth
    /\ entered = NoEntries

RoundsNext ==
    \/ RoundDequeue
    \/ \E id \in TaskIds, error \in Errors : RoundMarkRetry(id, error)
    \/ RoundRetry
    \/ \E d \in {0, retry_base_delay * 1000} : RoundAdvance(d)

SpecRounds == RoundsInit /\ [][RoundsNext]_vars

\* ----------------------------------------- a queue closed and opened again
\* One process opens a queue on a database file, works on it, closes it, and
\* a queue opened later on the same file goes on, as test_queue_persistence
\* does.  The session of every call has committed when the call returns, so
\* no call is under way when the queue is closed.
NoTable == <<>>
EmptyTable == [i \in TaskIds |-> NoRow]

QueueClosed == [op |-> "closed", size |-> 1]
QueueOpen == [op |-> "open", size |-> 1]

\* A create_tables that drops the table it finds: what C25 tells from the
\* code's.
create_tables_afresh(db) == EmptyTable

\* Base.metadata.create_all: CREATE TABLE for the tables the file lacks.
create_tables(db) == IF db = NoTable THEN EmptyTable ELSE db

\* select(TaskModel).where(TaskModel.id == task_id), scalar_one_or_none
get_task(rows, task_id) == {Outcome(rows, {task_id} \cap Present(rows), "")}

\* The ids a caller asks for: those the table has room for, and one no row has.
UnknownId == MaxTasks + 1
GetIds == TaskIds \cup {UnknownId}

\* WorkerQueue(config, database_manager) and initialize()
QueueInitialize ==
    /\ scenario = QueueClosed
    /\ scenario' = QueueOpen
    /\ tasks' = create_tables(tasks)
    /\ got' = <<>>
    /\ UNCHANGED <<now, ticks, max_attempts, upd, tasks0, workers>>
    /\ CountEntries

\* close(): the engine's connections are closed; tasks0 notes the file as
\* the queue left it.
QueueClose ==
    /\ scenario = QueueOpen
    /\ scenario' = QueueClosed
    /\ tasks0' = tasks
    /\ UNCHANGED <<now, ticks, max_attempts, tasks, upd, got, workers>>
    /\ CountEntries

GetTask(task_id) ==
    /\ scenario = QueueOpen
    /\ \E o \in get_task(tasks, task_id) :
          /\ tasks' = o.tasks
          /\ got' = <<Call("get_task", o, now)>>
    /\ UNCHANGED <<now, ticks, max_attempts, upd, scenario, tasks0, workers>>
    /\ CountEntries

RestartInit ==
    /\ now = 1
    /\ ticks = 0
    /\ max_attempts = MaxAttemptsBound
    /\ tasks = NoTable
    /\ upd = NoUpdate
    /\ scenario = QueueClosed
    /\ tasks0 = NoTable
    /\ got = <<>>
    /\ primary = PrimaryIdle
    /\ retrier = RetrierIdle
    /\ shutdown = {}
    /\ handles = NoHandles
    /\ marks = NoMarks
    /\ synth = NoSynth
    /\ entered = NoEntries

RestartNext ==
    \/ QueueInitialize
    \/ QueueClose
    \/ \E task_id \in GetIds : GetTask(task_id)
    \/ scenario = QueueOpen /\ \E batch \in Batches(now) : Enqueue(batch)
    \/ scenario = QueueOpen /\ \E size \in Sizes : Dequeue(size)
    \/ scenario = QueueOpen /\ \E size \in Sizes : Retry(size)
    \/ scenario = QueueOpen /\ \E id \in TaskIds, error \in Errors : MarkRetry(id, error)
    \/ scenario = QueueOpen /\ \E id \in TaskIds, items \in ItemChoices : MarkComplete(id, items)
    \/ \E d \in TickSteps : Tick(d)

SpecRestart == RestartInit /\ [][RestartNext]_vars

\* ------------------------------------------- the start of a process's parts
\* main.py starts the components its arguments name, each as a task of one
\* event loop: they start in any order.  A DatabaseManager instance is told
\* from another by the order of its construction.
ServiceManager(enable_http, primary_workers, retry_workers) ==
    (IF enable_http THEN {<<"http", 0>>} ELSE {})
        \cup {<<"primary", i>> : i \in 1..primary_workers}
        \cup {<<"retry", i>> : i \in 1..retry_workers}

\* providers.Singleton(DatabaseManager): the instance the provider made at
\* its first call, made now when there is none.
database_manager(h) ==
    IF h.singleton # 0 THEN h
    ELSE [h EXCEPT !.made = h.made + 1, !.singleton = h.made + 1]

\* providers.Factory(WorkerQueue, database_manager = database_manager): a new
\* queue that holds the provider's instance.
worker_queue(h, c) ==
    LET d == database_manager(h)
    IN  [d EXCEPT !.held[c] = {d.singleton}]

\* PrimaryWorker.startup: DatabaseManager(url) for self.db_manager, and
\* WorkerQueue(config), whose __init__ makes one for self.queue.db_manager.
primary_startup(h, c) ==
    [h EXCEPT !.made = h.made + 2, !.held[c] = {h.made + 1, h.made + 2}]

\* RetryWorker.startup of a worker built without queue or database_manager:
\* DatabaseManager(url), handed to WorkerQueue(config, self.db_manager).
retry_startup(h, c) ==
    [h EXCEPT !.made = h.made + 1, !.held[c] = {h.made + 1}]

\* initialize_container(): the provider's instance is made ahead of its use.
InitializeContainer ==
    /\ handles.run # {}
    /\ handles.singleton = 0
    /\ handles' = database_manager(handles)
    /\ UNCHANGED <<now, ticks, max_attempts, tasks, upd, conc, primary, retrier, shutdown,
                 marks, synth>>
    /\ CountEntries

\* The HTTP adapter takes its queue from the container.
HttpStartup(c) ==
    /\ c \in handles.run
    /\ c[1] = "http"
    /\ handles.held[c] = {}
    /\ handles' = worker_queue(handles, c)
    /\ UNCHANGED <<now, ticks, max_attempts, tasks, upd, conc, primary, retrier, shutdown,
                 marks, synth>>
    /\ CountEntries

PrimaryStartup(c) ==
    /\ c \in handles.run
    /\ c[1] = "primary"
    /\ handles.held[c] = {}
    /\ handles' = primary_startup(handles, c)
    /\ UNCHANGED <<now, ticks, max_attempts, tasks, upd, conc, primary, retrier, shutdown,
                 marks, synth>>
    /\ CountEntries

RetryStartup(c) ==
    /\ c \in handles.run
    /\ c[1] = "retry"
    /\ handles.held[c] = {}
    /\ handles' = retry_startup(handles, c)
    /\ UNCHANGED <<now, ticks, max_attempts, tasks, upd, conc, primary, retrier, shutdown,
                 marks, synth>>
    /\ CountEntries

StartInit ==
    /\ now = 1
    /\ ticks = 0
    /\ max_attempts = MaxAttemptsBound
    /\ tasks = EmptyTable
    /\ upd = NoUpdate
    /\ scenario = NoScenario
    /\ tasks0 = tasks
    /\ got = <<>>
    /\ primary = PrimaryIdle
    /\ retrier = RetrierIdle
    /\ shutdown = {}
    /\ \E enable_http \in BOOLEAN, primary_workers, retry_workers \in 0..MaxWorkers :
          handles = [NoHandles EXCEPT
                        !.run = ServiceManager(enable_http, primary_workers, retry_workers)]
    /\ marks = NoMarks
    /\ synth = NoSynth
    /\ entered = NoEntries

StartNext ==
    \/ InitializeContainer
    \/ \E c \in AllComponents : HttpStartup(c)
    \/ \E c \in AllComponents : PrimaryStartup(c)
    \/ \E c \in AllComponents : RetryStartup(c)

SpecStart == StartInit /\ [][StartNext]_vars

\* ------------------------------------------------- tasks of several items
\* One caller enqueues a task of up to MaxItems items with the item_count it
\* chooses, a worker dequeues it and completes it with the items list it
\* holds, or hands it to retry.
ItemsScenario == [op |-> "items", size |-> 1]

RECURSIVE ItemLists(_)
ItemLists(n) ==
    IF n = 0 THEN {<<>>}
    ELSE ItemLists(n - 1) \cup {Append(l, "data:audio/wav;base64") : l \in ItemLists(n - 1)}

CountedTasks(current_time) ==
    {[t EXCEPT !.items = [k \in DOMAIN items |-> ""], !.item_count = n] :
        t \in RoundTasks(current_time), items \in ItemLists(MaxItems), n \in 0..MaxItems}

ItemsInit ==
    /\ now = 1
    /\ ticks = 0
    /\ max_attempts = MaxAttemptsBound
    /\ tasks = EmptyTable
    /\ upd = NoUpdate
    /\ scenario = ItemsScenario
    /\ tasks0 = tasks
    /\ got = <<>>
    /\ primary = PrimaryIdle
    /\ retrier = RetrierIdle
    /\ shutdown = {}
    /\ handles = NoHandles
    /\ marks = NoMarks
    /\ synth = NoSynth
    /\ entered = NoEntries

ItemsNext ==
    \/ \E t \in CountedTasks(now) : Enqueue(<<t>>)
    \/ Dequeue(scenario.size)
    \/ \E id \in TaskIds, items \in ItemLists(MaxItems) : MarkComplete(id, items)
    \/ \E id \in TaskIds, error \in Errors : MarkRetry(id, error)
    \/ Retry(scenario.size)
    \/ \E d \in TickSteps : Tick(d)

SpecItems == ItemsInit /\ [][ItemsNext]_vars

\* ------------------------------------------- mark_as_retry calls under way
\* Two workers of one process call mark_as_retry, each on a session of its
\* own.  The call's SELECT and its UPDATE are two statements with awaits
\* between them, and the sqlite3 driver opens the transaction at the UPDATE:
\* what the call read is not locked, and another call's statements come
\* between.
WorkerErrors == {"Processing failed", "Retry processing failed"}

\* lines 423-437: the row is read and checked, the error is appended to the
\* errors read.
mark_as_retry_read(rows, id, error) ==
    IF rows[id] = NoRow THEN [err |-> "TaskNotFoundError"]
    ELSE IF rows[id].state # PROCESSING THEN [err |-> "InvalidStateTransitionError"]
    ELSE [err |-> "", id |-> id, error |-> error,
          existing_errors |-> Append(rows[id].attempted_error, error)]

\* lines 440-449: UPDATE ... WHERE id = task_id, with the errors computed
\* from what was read.
mark_as_retry_write(rows, m, current_time) ==
    [rows EXCEPT ![m.id] = [@ EXCEPT !.state = RETRYABLE,
                                     !.attempted_error = m.existing_errors,
                                     !.updated_at = current_time]]

MarkRetryRead(c, id, error) ==
    /\ marks[c] = NoMark
    /\ tasks[id] # NoRow => Len(tasks[id].attempted_error) < MaxErrors
    /\ LET m == mark_as_retry_read(tasks, id, error)
       IN  marks' = [marks EXCEPT ![c] = IF m.err = "" THEN m ELSE NoMark]
    /\ UNCHANGED <<now, ticks, max_attempts, tasks, upd, conc, primary, retrier, shutdown,
                   handles, synth>>
    /\ CountEntries

MarkRetryWrite(c) ==
    /\ marks[c] # NoMark
    /\ tasks' = mark_as_retry_write(tasks, marks[c], now)
    /\ marks' = [marks EXCEPT ![c] = NoMark]
    /\ UNCHANGED <<now, ticks, max_attempts, upd, conc, primary, retrier, shutdown, handles, synth>>
    /\ CountEntries

ErrorsInit ==
    /\ now = 1
    /\ ticks = 0
    /\ max_attempts = MaxAttemptsBound
    /\ tasks = EmptyTable
    /\ upd = NoUpdate
    /\ scenario = NoScenario
    /\ tasks0 = tasks
    /\ got = <<>>
    /\ primary = PrimaryIdle
    /\ retrier = RetrierIdle
    /\ shutdown = {}
    /\ handles = NoHandles
    /\ marks = NoMarks
    /\ synth = NoSynth
    /\ entered = NoEntries

ErrorsNext ==
    \/ \E t \in RoundTasks(now) : Enqueue(<<t>>)
    \/ \E size \in 1..MaxSize : Dequeue(size)
    \/ \E size \in 1..MaxSize : Retry(size)
    \/ \E id \in TaskIds, items \in ItemChoices : MarkComplete(id, items)
    \/ \E c \in 1..MaxCallers, id \in TaskIds, error \in WorkerErrors : MarkRetryRead(c, id, error)
    \/ \E c \in 1..MaxCallers : MarkRetryWrite(c)
    \/ \E d \in TickSteps : Tick(d)

SpecErrors == ErrorsInit /\ [][ErrorsNext]_vars

\* ------------------------------------------------- process_task, by item
\* process_task of either worker: a loop over task.items that awaits
\* execute_async for one item after the other and reads nothing else; the
\* tasks of a batch run side by side under gather.  synth[w][id] is how far
\* worker w's process_task of task id has come.
\* The tasks worker w is processing.
Processing(w) ==
    IF w = "primary"
    THEN IF primary.pc = "process" THEN primary.batch ELSE {}
    ELSE IF retrier.pc = "claiming" /\ upd = NoUpdate THEN {retrier.cur.id} ELSE {}

\* The loop of process_task reaches an item and awaits its execute_async.
ExecuteAsync(w, id) ==
    /\ id \in Processing(w)
    /\ ~ synth[w][id].running
    /\ synth[w][id].done < Len(tasks[id].items)
    /\ synth' = [synth EXCEPT ![w][id].running = TRUE]
    /\ UNCHANGED <<now, ticks, max_attempts, tasks, upd, conc, primary, retrier, shutdown,
                   handles, marks>>
    /\ CountEntries

\* execute_async returns the audio of the item.
ExecuteReturns(w, id) ==
    /\ id \in Processing(w)
    /\ synth[w][id].running
    /\ synth' = [synth EXCEPT ![w][id] = [done |-> @.done + 1, running |-> FALSE]]
    /\ UNCHANGED <<now, ticks, max_attempts, tasks, upd, conc, primary, retrier, shutdown,
                   handles, marks>>
    /\ CountEntries

\* process_task returns: True after the last item, False when the item under
\* way raised; _process_single_task then marks the task.
ProcessTaskReturns(w, id, success) ==
    /\ id \in Processing(w)
    /\ IF success
       THEN ~ synth[w][id].running /\ synth[w][id].done = Len(tasks[id].items)
       ELSE synth[w][id].running
    /\ synth' = [synth EXCEPT ![w][id] = NotStarted]
    /\ IF w = "primary"
       THEN /\ \E o \in primary_process_single_task(tasks, id, success, now) :
                  tasks' = o.tasks
            /\ primary' = IF primary.batch = {id} THEN PrimaryIdle
                          ELSE [primary EXCEPT !.batch = @ \ {id}]
            /\ retrier' = retrier
       ELSE /\ \E o \in retry_process_single_task(tasks, id, success, now) :
                  tasks' = o.tasks
            /\ retrier' = RetrierAfter(retrier.cur)
            /\ primary' = primary
    /\ UNCHANGED <<now, ticks, max_attempts, upd, conc, shutdown, handles, marks>>
    /\ CountEntries

SynthInit ==
    /\ now = NowConc
    /\ ticks = 0
    /\ max_attempts = BatchMaxAttempts
    /\ \E l \in ItemLists(MaxItems) \ {<<>>} :
          tasks \in [1..MaxRows ->
                        {[r EXCEPT !.items = [k \in DOMAIN l |-> ""],
                                   !.item_count = Len(l)] :
                            r \in {b \in BatchRows : b.state = PENDING}}]
    /\ upd = NoUpdate
    /\ scenario = [op |-> "synth", size |-> MaxRows]
    /\ tasks0 = tasks
    /\ got = <<>>
    /\ primary = PrimaryIdle
    /\ retrier = RetrierIdle
    /\ shutdown = {}
    /\ handles = NoHandles
    /\ marks = NoMarks
    /\ synth = NoSynth
    /\ entered = NoEntries

SynthNext ==
    \/ \E w \in Workers : Shutdown(w)
    \/ PrimaryBreak
    \/ /\ "primary" \notin shutdown
       /\ PrimaryDequeue \/ PrimaryWait
    \/ RetryBreak
    \/ /\ ~ (retrier.pc \in {"poll", "wait"} /\ "retry" \in shutdown)
       /\ \/ RetryPoll
          \/ RetryWait
          \/ RetryFilter
          \/ \E t \in retrier.batch : RetryClaim(t)
    \/ UpdateWrite
    \/ \E w \in Workers, id \in DOMAIN tasks : ExecuteAsync(w, id)
    \/ \E w \in Workers, id \in DOMAIN tasks : ExecuteReturns(w, id)
    \/ \E w \in Workers, id \in DOMAIN tasks, success \in BOOLEAN :
          ProcessTaskReturns(w, id, success)
    \/ Advance

\* Both workers on a table of two PENDING tasks of as many items, at most
\* MaxItems; a shutdown may come at any time.
SpecSynth == SynthInit /\ [][SynthNext]_vars

\* ------------------------------------------------------ leases of workers
\* Workers 1..MaxCallers of one queue: each dequeues one task at a time and
\* later calls mark_as_complete or mark_as_retry, once, for the task it
\* dequeued, however long its synthesis took; retry reclaims the leases that
\* expired.  got lists the dequeues that returned a task, in order, with the
\* worker and whether it has made its call.
LeaseInit ==
    /\ now = 1
    /\ ticks = 0
    /\ max_attempts = MaxAttemptsBound
    /\ tasks = [i \in TaskIds |-> NoRow]
    /\ upd = NoUpdate
    /\ scenario = [op |-> "lease", size |-> 1]
    /\ tasks0 = tasks
    /\ got = <<>>
    /\ primary = PrimaryIdle
    /\ retrier = RetrierIdle
    /\ shutdown = {}
    /\ handles = NoHandles
    /\ marks = NoMarks
    /\ synth = NoSynth
    /\ entered = NoEntries

LeaseDequeue(c) ==
    /\ Len(got) < MaxLeases
    /\ \E o \in dequeue(tasks, scenario.size, now) :
          /\ tasks' = o.tasks
          /\ got' = IF o.ids = {} THEN got
                    ELSE Append(got, [caller |-> c, ids |-> o.ids, err |-> o.err,
                                      marked |-> FALSE])
    /\ UNCHANGED <<now, ticks, max_attempts, upd, scenario, tasks0, workers>>
    /\ CountEntries

\* _process_single_task of worker c reaches its call of mark_as_complete
\* (process_task succeeded) or of mark_as_retry.
LeaseMark(c, k, id, success) ==
    /\ k \in DOMAIN got
    /\ got[k].caller = c
    /\ id \in got[k].ids
    /\ ~ got[k].marked
    /\ Len(tasks[id].attempted_error) < MaxErrors
    /\ \E o \in IF success
                THEN mark_as_complete(tasks, id, CHOOSE x \in ItemChoices : TRUE, now)
                ELSE mark_as_retry(tasks, id, "Processing failed", now) :
          tasks' = o.tasks
    /\ got' = [got EXCEPT ![k].marked = TRUE]
    /\ UNCHANGED <<now, ticks, max_attempts, upd, scenario, tasks0, workers>>
    /\ CountEntries

LeaseNext ==
    \/ \E batch \in Batches(now) : Enqueue(batch)
    \/ \E c \in 1..MaxCallers : LeaseDequeue(c)
    \/ \E c \in 1..MaxCallers, k \in 1..MaxLeases, id \in TaskIds, success \in BOOLEAN :
          LeaseMark(c, k, id, success)
    \/ Retry(scenario.size)
    \/ Advance

SpecLease == LeaseInit /\ [][LeaseNext]_vars

\* ------------------------------------------------------------------ claims
Terminal == {COMPLETED, CANCELLED, DISCARDED}

\* The call a step of the concurrent callers made, and what it returned.
Called == Len(got') = Len(got) + 1
ReturnedIds == got'[Len(got')].ids

RECURSIVE UnionOf(_)
UnionOf(calls) ==
    IF calls = <<>> THEN {} ELSE Head(calls).ids \cup UnionOf(Tail(calls))

Disjoint(calls) ==
    \A j, k \in DOMAIN calls : j # k => calls[j].ids \cap calls[k].ids = {}

PendingDue(rows, current_time) ==
    {i \in Present(rows) : rows[i].state = PENDING /\ rows[i].schedule_at <= current_time}

\* C1: when K callers run Dequeue(size) concurrently over N PENDING tasks with
\* schedule_at <= now, no id is returned to two callers and the union of the
\* returned ids has min(K * size, N) elements.
C1_DequeueUniqueness ==
    (/\ scenario.op = "dequeue"
     /\ PendingDue(tasks0, NowConc) = Present(tasks0))
        => /\ Disjoint(got)
           /\ Cardinality(UnionOf(got))
                 = Min(Len(got) * scenario.size, Cardinality(Present(tasks0)))

C1_Witness ==
    /\ scenario.op = "dequeue"
    /\ scenario.size = 1
    /\ Cardinality(PendingDue(tasks0, NowConc)) = 2
    /\ PendingDue(tasks0, NowConc) = Present(tasks0)
    /\ Len(got) = 2
    /\ got[1].ids # {}
    /\ got[2].ids # {}

\* C2: with both workers scheduled fairly and the clock advancing, every
\* enqueued task eventually reaches COMPLETED or DISCARDED (no step of these
\* runs cancels a task).
C2_AtLeastOnceDelivery ==
    \A i \in TaskIds :
        (tasks[i] # NoRow) ~> (tasks[i].state \in {COMPLETED, DISCARDED})

\* The transitions of the state machine.
LegalTransitions ==
    {<<PENDING, PROCESSING>>, <<PROCESSING, COMPLETED>>, <<PROCESSING, RETRYABLE>>,
     <<PROCESSING, DISCARDED>>, <<PENDING, CANCELLED>>, <<DISCARDED, PENDING>>,
     <<RETRYABLE, PENDING>>, <<PROCESSING, PENDING>>, <<RETRYABLE, DISCARDED>>}

\* C3: under any interleaving of the queue's operations, every change of a
\* row's persisted state is one of the legal transitions.
C3_OnlyLegalTransitions ==
    [][\A i \in TaskIds :
          (tasks[i] # NoRow /\ tasks'[i].state # tasks[i].state)
              => <<tasks[i].state, tasks'[i].state>> \in LegalTransitions]_vars

\* C4: for every row, finalized_at is non-null if and only if the state is
\* COMPLETED, CANCELLED or DISCARDED, also after Resume.
C4_FinalizedIffTerminal ==
    \A i \in Present(tasks) :
        (tasks[i].finalized_at # Null) <=> (tasks[i].state \in Terminal)

\* C5: for every row, attempt_count <= max_attempts, and attempt_count =
\* max_attempts only in state DISCARDED.
C5_AttemptsBounded ==
    \A i \in Present(tasks) :
        /\ tasks[i].attempt_count <= max_attempts
        /\ tasks[i].attempt_count = max_attempts => tasks[i].state = DISCARDED

\* C6: a row that entered PROCESSING at time d (its updated_at) and still is
\* PROCESSING is not reclaimed by a Retry call at a time t with
\* t - d <= visibility_timeout.  Retry alone increments attempt_count.
C6_LeaseLastsVisibilityTimeout ==
    [][\A i \in TaskIds :
          (/\ tasks[i] # NoRow
           /\ tasks[i].state = PROCESSING
           /\ now - tasks[i].updated_at <= default_visibility_timeout * 1000)
              => tasks'[i].attempt_count = tasks[i].attempt_count]_vars

\* C7: a row in PROCESSING with schedule_at < now - visibility_timeout is
\* returned by the next Retry call, which leaves it PENDING or DISCARDED.
C7_ReaperProgress ==
    [][(scenario.op = "retry" /\ Called)
          => \A i \in Present(tasks) :
                (/\ tasks[i].state = PROCESSING
                 /\ tasks[i].schedule_at < now - default_visibility_timeout * 1000)
                    => /\ i \in ReturnedIds
                       /\ tasks'[i].state \in {PENDING, DISCARDED}]_vars

RetrySelected(rows, current_time, size) ==
    LET E == {i \in Present(rows) :
                /\ \/ rows[i].state = RETRYABLE /\ rows[i].schedule_at <= current_time
                   \/ /\ rows[i].state = PROCESSING
                      /\ rows[i].schedule_at
                            < current_time - default_visibility_timeout * 1000
                /\ rows[i].attempt_count < max_attempts}
    IN  IF Cardinality(E) <= size THEN E ELSE {}

\* C9: for every max_attempts >= 1, a Retry call makes each row it selects
\* whose new attempt_count is >= max_attempts DISCARDED with finalized_at =
\* now and schedule_at unchanged, and returns the row as updated.
C9_RetryDiscard ==
    [][(scenario.op = "retry" /\ Called)
          => \A i \in RetrySelected(tasks, now, scenario.size) :
                tasks[i].attempt_count + 1 >= max_attempts
                    => /\ tasks'[i].state = DISCARDED
                       /\ tasks'[i].finalized_at = now
                       /\ tasks'[i].schedule_at = tasks[i].schedule_at
                       /\ i \in ReturnedIds]_vars

\* How many of the calls returned row i.
RECURSIVE TimesReturned(_, _)
TimesReturned(calls, i) ==
    IF calls = <<>> THEN 0
    ELSE (IF i \in Head(calls).ids THEN 1 ELSE 0) + TimesReturned(Tail(calls), i)

\* C10: when several Retry calls run concurrently, no row is returned to two
\* of them, and a row's attempt_count grows by one when a call returned it
\* and not at all otherwise.
C10_NoDoubleReaping ==
    scenario.op = "retry"
        => /\ Disjoint(got)
           /\ \A i \in Present(tasks0) :
                 /\ TimesReturned(got, i) <= 1
                 /\ tasks[i].attempt_count
                       = tasks0[i].attempt_count + TimesReturned(got, i)

\* Two calls of size 1 over two eligible rows: each reaps one.
C10_Witness ==
    /\ scenario.op = "retry"
    /\ scenario.size = 1
    /\ Len(got) = 2
    /\ got[1].ids # {}
    /\ got[2].ids # {}
    /\ got[1].ids # got[2].ids

\* The retry calls that promoted row i: they returned it PENDING.
Promotions(calls, i) ==
    {k \in DOMAIN calls :
        /\ calls[k].op = "retry"
        /\ i \in calls[k].ids
        /\ calls[k].rows[i].state = PENDING}

\* schedule_at - now as the promotion set it.
PromotionDelay(call, i) == call.rows[i].schedule_at - call.at

\* C11: over successive Retry promotions of the same task, the delay
\* schedule_at - now that the promotion sets is non-decreasing and never
\* exceeds max_retry_delay.
C11_BackoffMonotonicity ==
    scenario = RoundsScenario
        => \A i \in TaskIds :
              \A k \in Promotions(got, i) :
                 /\ PromotionDelay(got[k], i) <= max_retry_delay * 1000
                 /\ \A j \in Promotions(got, i) :
                       j < k => PromotionDelay(got[j], i) <= PromotionDelay(got[k], i)

\* Seven promotions of one task: the first waits retry_base_delay, the
\* second twice that, the last max_retry_delay.
C11_Witness ==
    /\ scenario = RoundsScenario
    /\ \E i \in TaskIds :
          /\ Cardinality(Promotions(got, i)) = 7
          /\ \E j, k, l \in Promotions(got, i) :
                /\ PromotionDelay(got[j], i) = retry_base_delay * 1000
                /\ PromotionDelay(got[k], i) = 2 * retry_base_delay * 1000
                /\ PromotionDelay(got[l], i) = max_retry_delay * 1000

\* C12: with max_attempts = M, a task put through M rounds of Dequeue,
\* MarkRetry, Retry, the clock advanced past each backoff, is PENDING after
\* each of the first M - 1 rounds and, after the M-th Retry, DISCARDED with
\* finalized_at set, attempt_count = M and M strings in attempted_error.
C12_ExhaustedRetries ==
    (scenario = RoundsScenario /\ got # <<>> /\ Len(got) % 3 = 0)
        => \A i \in Present(tasks) :
              IF Len(got) \div 3 < max_attempts
              THEN tasks[i].state = PENDING
              ELSE /\ tasks[i].state = DISCARDED
                   /\ tasks[i].finalized_at # Null
                   /\ tasks[i].attempt_count = max_attempts
                   /\ Len(tasks[i].attempted_error) = max_attempts

\* The call fails with err and leaves the table as it was.
Rejects(outcomes, rows, err) ==
    /\ outcomes # {}
    /\ \A o \in outcomes : o.err = err /\ o.tasks = rows

\* What each of the five calls does on row id of the table as it is now.
TransitionCalls(id) ==
    [MarkComplete |-> UNION {mark_as_complete(tasks, id, items, now) : items \in ItemChoices},
     MarkRetry |-> UNION {mark_as_retry(tasks, id, error, now) : error \in Errors},
     MarkDiscarded |-> _update_task_state(tasks, id, mark_as_discarded, now),
     MarkCancelled |-> _update_task_state(tasks, id, mark_as_cancelled, now),
     Resume |-> _update_task_state(tasks, id, mark_as_resume, now)]

ExpectedState ==
    [MarkComplete |-> PROCESSING, MarkRetry |-> PROCESSING, MarkDiscarded |-> PROCESSING,
     MarkCancelled |-> PENDING, Resume |-> DISCARDED]

\* C13: MarkComplete, MarkRetry or MarkDiscarded on a row that is not
\* PROCESSING, MarkCancelled on a row that is not PENDING and Resume on a row
\* that is not DISCARDED fail with InvalidStateTransition and leave every
\* field of every row unchanged; each of them on an unknown id fails with
\* TaskNotFound and changes no row.
C13_RejectedTransitionsChangeNothing ==
    \A id \in TaskIds : \A call \in DOMAIN ExpectedState :
        /\ tasks[id] = NoRow
              => Rejects(TransitionCalls(id)[call], tasks, "TaskNotFoundError")
        /\ (tasks[id] # NoRow /\ tasks[id].state # ExpectedState[call])
              => Rejects(TransitionCalls(id)[call], tasks, "InvalidStateTransitionError")

\* A CANCELLED row, reached by mark_as_cancelled: each of the five calls on
\* it is rejected.
C13_Witness ==
    \E id \in Present(tasks) :
        /\ tasks[id].state = CANCELLED
        /\ tasks[id].finalized_at # Null
        /\ \A call \in DOMAIN ExpectedState :
              Rejects(TransitionCalls(id)[call], tasks, "InvalidStateTransitionError")

\* C14: when the primary worker has dequeued a task and synthesis succeeds for
\* every item, the worker calls MarkComplete with the mutated items and the
\* task ends COMPLETED with finalized_at set and every item's response_url a
\* data:audio/wav;base64 URL.
C14_WorkerSuccessPath ==
    [][\A id \in TaskIds :
          (/\ tasks[id] # NoRow
           /\ tasks[id].state = PROCESSING
           /\ PrimaryProcessSingleTask(id, TRUE))
              => /\ tasks'[id].state = COMPLETED
                 /\ tasks'[id].finalized_at = now
                 /\ tasks'[id].items \in ItemChoices]_vars

\* C15: when synthesis of an item of a leased task fails or times out, the
\* worker calls MarkRetry: the task becomes RETRYABLE with one error string
\* appended to attempted_error, and its stored items stay as enqueued.
C15_WorkerFailurePath ==
    [][\A id \in TaskIds :
          (/\ tasks[id] # NoRow
           /\ tasks[id].state = PROCESSING
           /\ PrimaryProcessSingleTask(id, FALSE))
              => /\ tasks'[id].state = RETRYABLE
                 /\ Len(tasks'[id].attempted_error) = Len(tasks[id].attempted_error) + 1
                 /\ SubSeq(tasks'[id].attempted_error, 1, Len(tasks[id].attempted_error))
                       = tasks[id].attempted_error
                 /\ tasks'[id].items = tasks[id].items
                 /\ tasks'[id].items \notin ItemChoices]_vars

\* The primary worker is back at its poll after a failed synthesis: the row
\* is RETRYABLE and holds the worker's error and the items it was enqueued
\* with.
C15_Witness ==
    /\ primary = PrimaryIdle
    /\ \E id \in Present(tasks) :
          /\ tasks[id].state = RETRYABLE
          /\ tasks[id].attempted_error = <<"Processing failed">>
          /\ tasks[id].items \notin ItemChoices

\* The step is the write of the _update_task_state call of this kind on row id.
Wrote(kind, id) ==
    /\ upd # NoUpdate
    /\ upd.name = kind.name
    /\ upd.id = id
    /\ upd' = NoUpdate

\* C16: MarkCancelled on a PENDING task persists state CANCELLED with
\* finalized_at set, and from then on, whatever Dequeue calls run beside it,
\* the task is never returned by Dequeue and never becomes PROCESSING or
\* COMPLETED.
C16_Cancellation ==
    [][\A id \in TaskIds :
          /\ Wrote(mark_as_cancelled, id)
                => (tasks'[id].state = CANCELLED /\ tasks'[id].finalized_at = now)
          /\ (tasks[id] # NoRow /\ tasks[id].state = CANCELLED)
                => /\ tasks'[id].state \notin {PROCESSING, COMPLETED}
                   /\ \A size \in Sizes : \A o \in dequeue(tasks, size, now) :
                         id \notin o.ids]_vars

\* C17: on a DISCARDED task, Resume persists state PENDING with schedule_at =
\* now, and a following Dequeue that has room for it returns the task.
C17_Resume ==
    [][\A id \in TaskIds :
          Wrote(mark_as_resume, id)
              => /\ tasks'[id].state = PENDING
                 /\ tasks'[id].schedule_at = now
                 /\ \A o \in dequeue(tasks', MaxRows, now) : id \in o.ids]_vars

\* C18: every row Enqueue inserts has state PENDING whatever state the
\* caller's task carried, created_at = updated_at = now, schedule_at = now
\* when the caller passed 0 and the caller's value otherwise, a freshly minted
\* id when the caller's id was empty, and item_count = len(items); the call
\* returns the ids of the inserted rows.
C18_EnqueueNormalisation ==
    [][\A batch \in Batches(now) :
          (batch # <<>> /\ Enqueue(batch) /\ tasks' # tasks)
              => LET inserted == Present(tasks') \ Present(tasks)
                 IN  /\ Cardinality(inserted) = Len(batch)
                     /\ \A i \in inserted :
                           /\ tasks'[i].state = PENDING
                           /\ tasks'[i].created_at = now
                           /\ tasks'[i].updated_at = now
                           /\ tasks'[i].item_count = Len(tasks'[i].items)
                     /\ \A k \in DOMAIN batch : \E i \in inserted :
                           /\ batch[k].id # 0 => i = batch[k].id
                           /\ tasks'[i].items = batch[k].items
                           /\ tasks'[i].schedule_at =
                                 IF batch[k].schedule_at = 0 THEN now
                                 ELSE batch[k].schedule_at
                     /\ \A o \in enqueue(tasks, batch, now) :
                           o.tasks = tasks' => o.ids = inserted]_vars

\* The tasks of the batch whose explicit id a row of the table has.
Colliding(rows, batch) == {k \in DOMAIN batch : batch[k].id \in Present(rows)}

\* C19: when a batch holds explicit ids that exist already, Enqueue skips the
\* colliding tasks and leaves the stored rows unchanged, inserts the other
\* tasks of the batch, and returns only ids of rows present after commit;
\* enqueueing the same explicit id a second time leaves the store as the
\* first call left it.
C19_EnqueueIdCollision ==
    \A batch \in Batches(now) :
        (CanMint(tasks, batch) /\ Colliding(tasks, batch) # {})
            => \A o \in enqueue(tasks, batch, now) :
                  /\ o.err = ""
                  /\ \A i \in Present(tasks) : o.tasks[i] = tasks[i]
                  /\ Cardinality(Present(o.tasks) \ Present(tasks))
                        = Len(batch) - Cardinality(Colliding(tasks, batch))
                  /\ {batch[k].id : k \in Colliding(tasks, batch)} \subseteq o.ids
                  /\ o.ids \subseteq Present(o.tasks)
                  /\ \A again \in enqueue(o.tasks, batch, now) : again.tasks = o.tasks

\* C20: MarkComplete on a PROCESSING task persists, in one transaction, the
\* caller's items together with state = COMPLETED and finalized_at =
\* updated_at = now, and changes no other field of the row (attempt_count,
\* schedule_at, attempted_error, created_at) nor any other row.
C20_MarkComplete ==
    [][\A id \in DOMAIN tasks : \A items \in ItemChoices :
          (/\ tasks[id] # NoRow
           /\ tasks[id].state = PROCESSING
           /\ CompleteCall(id, items))
              => /\ tasks' = [tasks EXCEPT ![id] =
                                [@ EXCEPT !.state = COMPLETED,
                                          !.items = items,
                                          !.finalized_at = now,
                                          !.updated_at = now]]
                 /\ got'[Len(got')] = [ids |-> {id}, err |-> ""]]_vars

\* A table of two rows of which a call completed one: the row holds the
\* caller's items, the other row is as it was.
C20_Witness ==
    /\ scenario.op = "complete"
    /\ Len(got) = 1
    /\ got[1].err = ""
    /\ \E id \in got[1].ids : \E other \in Present(tasks) \ {id} :
          /\ tasks0[id].state = PROCESSING
          /\ tasks[id].state = COMPLETED
          /\ tasks[id].items \in ItemChoices
          /\ tasks[id].items # tasks0[id].items
          /\ tasks[id].finalized_at = now
          /\ tasks[other] = tasks0[other]

\* C21: MarkRetry on a PROCESSING task appends exactly the given error to
\* attempted_error, sets state = RETRYABLE and updated_at = now, and leaves
\* attempt_count, schedule_at, attempted_at, finalized_at and items unchanged.
C21_MarkRetryFrame ==
    [][\A id \in TaskIds : \A error \in Errors :
          (/\ tasks[id] # NoRow
           /\ tasks[id].state = PROCESSING
           /\ MarkRetry(id, error))
              => /\ tasks'[id].attempted_error = Append(tasks[id].attempted_error, error)
                 /\ tasks'[id].state = RETRYABLE
                 /\ tasks'[id].updated_at = now
                 /\ tasks'[id].attempt_count = tasks[id].attempt_count
                 /\ tasks'[id].schedule_at = tasks[id].schedule_at
                 /\ tasks'[id].attempted_at = tasks[id].attempted_at
                 /\ tasks'[id].finalized_at = tasks[id].finalized_at
                 /\ tasks'[id].items = tasks[id].items]_vars

\* A task marked for retry a second time, after a retry promoted it and a
\* dequeue leased it again: two errors, one attempt counted.
C21_Witness ==
    \E id \in Present(tasks) :
        /\ tasks[id].state = RETRYABLE
        /\ tasks[id].attempted_error = <<"boom", "boom">>
        /\ tasks[id].attempt_count = 1
        /\ tasks[id].updated_at > tasks[id].attempted_at

\* C22: once its shutdown event is set, a worker's run loop ends: a worker
\* at its idle poll returns at once, without waiting out poll_delay, and a
\* worker that is processing a batch leaves after that batch without
\* dequeuing again.
C22_ShutdownTerminates ==
    /\ ("primary" \in shutdown) ~> (primary.pc = "stopped")
    /\ ("retry" \in shutdown) ~> (retrier.pc = "stopped")
    /\ [][/\ ("primary" \in shutdown /\ primary' # primary)
                => /\ primary.pc \in {"poll", "wait"} => primary'.pc = "stopped"
                   /\ primary'.batch \subseteq primary.batch
          /\ ("retry" \in shutdown /\ retrier' # retrier)
                => /\ retrier.pc \in {"poll", "wait", "backoff"}
                         => retrier'.pc = "stopped"
                   /\ retrier'.batch \subseteq retrier.batch]_vars

\* Both workers have left their loops, the primary worker while a task that
\* is due waits in the queue.
C22_Witness ==
    /\ shutdown = Workers
    /\ primary.pc = "stopped"
    /\ retrier.pc = "stopped"
    /\ \E i \in Present(tasks) : tasks[i].state = PENDING /\ tasks[i].schedule_at <= now

\* C23: a failure confined to one task (a synthesis error, or MarkComplete or
\* MarkRetry raising for that task) never ends the worker loop: each step of
\* a worker on its batch finishes one task, with a MarkComplete or MarkRetry
\* when the task is still leased, keeps the other tasks of the batch to be
\* processed, and after the last one the worker is at its next poll.
C23_TaskFailureIsContained ==
    [][/\ (primary.pc = "process" /\ primary' # primary)
             => \E id \in primary.batch :
                   /\ primary' = IF primary.batch = {id} THEN PrimaryIdle
                                 ELSE [pc |-> "process", batch |-> primary.batch \ {id}]
                   /\ tasks[id].state = PROCESSING
                         => tasks'[id].state \in {COMPLETED, RETRYABLE}
       /\ (retrier.pc \in {"process", "claiming"} /\ retrier' # retrier)
             => \E t \in retrier.batch :
                   \/ /\ retrier.pc = "process"
                      /\ retrier' = [retrier EXCEPT !.pc = "claiming", !.cur = t]
                   \/ /\ retrier.pc = "claiming" => t = retrier.cur
                      /\ retrier' = IF retrier.batch = {t} THEN RetrierIdle
                                    ELSE [pc |-> "process", batch |-> retrier.batch \ {t},
                                          cur |-> 0]
                      /\ (retrier.pc = "claiming" /\ tasks[t.id].state = PROCESSING)
                            => tasks'[t.id].state \in {COMPLETED, RETRYABLE}]_vars

\* The primary worker is through a batch of two tasks.  The retry worker
\* reaped one of them while the primary worker held it, so that the primary
\* worker's mark_as_retry for it raised and recorded nothing; the other task
\* holds the primary worker's error.
C23_Witness ==
    /\ scenario = BatchScenario
    /\ primary = PrimaryIdle
    /\ \E i, j \in Present(tasks) :
          /\ i # j
          /\ tasks0[i].state = PENDING
          /\ tasks0[j].state = PENDING
          /\ tasks[i].state = PENDING
          /\ tasks[i].attempt_count = 1
          /\ tasks[i].attempted_error = <<>>
          /\ tasks[j].state = RETRYABLE
          /\ Len(tasks[j].attempted_error) = 1

\* C24: the boundary calls are no-ops.  Dequeue(size) with size <= 0, Dequeue
\* when no PENDING task has schedule_at <= now, Retry with size <= 0 and
\* Enqueue of an empty batch return an empty list, raise nothing and leave
\* every row as it is.
C24_BoundaryNoOps ==
    LET nothing == {Outcome(tasks, {}, "")}
    IN  /\ \A size \in Sizes :
              size <= 0 =>
                  /\ dequeue(tasks, size, now) = nothing
                  /\ retry(tasks, size, default_visibility_timeout, max_attempts, now)
                        = nothing
        /\ DequeueEligible(tasks, now) = {}
              => \A size \in Sizes : dequeue(tasks, size, now) = nothing
        /\ enqueue(tasks, <<>>, now) = nothing

\* A PENDING task is due, so that a Dequeue of a size above 0 would take it,
\* and it has been through a retry round before.
C24_Witness ==
    \E i \in Present(tasks) :
        /\ tasks[i].state = PENDING
        /\ tasks[i].schedule_at <= now
        /\ tasks[i].attempt_count > 0
        /\ dequeue(tasks, 1, now) # {Outcome(tasks, {}, "")}

\* C25: durability across restart.  Closing the queue and opening a new queue
\* on the same database changes no row; a task that was enqueued and dequeued
\* before the close is found by GetTask under the same id in PROCESSING
\* state; GetTask of an unknown id returns nothing; and no GetTask changes a
\* row.
C25_DurabilityAcrossRestart ==
    [][/\ scenario'.op = "closed" => tasks' = tasks
       /\ (scenario.op = "closed" /\ scenario'.op = "open" /\ tasks0 # NoTable)
             => tasks' = tasks0
       /\ \A task_id \in GetIds :
             GetTask(task_id)
                => /\ tasks' = tasks
                   /\ got'[1].err = ""
                   /\ got'[1].ids = IF task_id \in TaskIds /\ tasks[task_id] # NoRow
                                    THEN {task_id} ELSE {}
                   /\ \A i \in got'[1].ids : got'[1].rows[i] = tasks[i]
                   /\ (/\ tasks0 # NoTable
                       /\ tasks = tasks0
                       /\ task_id \in Present(tasks0)
                       /\ tasks0[task_id].state = PROCESSING)
                         => /\ got'[1].ids = {task_id}
                            /\ got'[1].rows[task_id].state = PROCESSING]_vars

\* The queue opened after a close that followed a dequeue has looked the
\* task up and found it PROCESSING, and an unknown id is not in the table.
C25_Witness ==
    /\ scenario = QueueOpen
    /\ tasks0 # NoTable
    /\ tasks = tasks0
    /\ Len(got) = 1
    /\ \E i \in got[1].ids :
          /\ tasks0[i].state = PROCESSING
          /\ got[1].rows[i].state = PROCESSING
          /\ got[1].rows[i].attempt_count = 0

\* C26: one database handle per process.  Every primary worker, every retry
\* worker and the HTTP adapter of one process use the same DatabaseManager
\* instance: every component that has started holds the container's
\* singleton and no other, and no worker has constructed a second one.
C26_OneDatabaseHandle ==
    /\ handles.made <= 1
    /\ \A c \in handles.run :
          handles.held[c] # {} => handles.held[c] = {handles.singleton}

\* C27: for every row updated_at >= created_at after every committed
\* operation, and every mutation of a row (Dequeue, Retry, MarkComplete,
\* MarkRetry, MarkCancelled, MarkDiscarded, Resume) leaves its updated_at
\* strictly greater than it was, also when two mutations happen at the same
\* clock reading.
C27_UpdatedAtIncreases ==
    [][\A i \in TaskIds :
          /\ tasks'[i] # NoRow => tasks'[i].updated_at >= tasks'[i].created_at
          /\ (tasks[i] # NoRow /\ tasks'[i] # tasks[i])
                => tasks'[i].updated_at > tasks[i].updated_at]_vars

\* C28: for every row and after every committed operation item_count equals
\* the number of stored items: after Enqueue, whatever item_count the caller
\* supplied, and after MarkComplete with a caller's items list of any length.
C28_ItemCountIsLength ==
    \A i \in Present(tasks) : tasks[i].item_count = Len(tasks[i].items)

IsPrefix(s, t) == Len(s) <= Len(t) /\ \A k \in DOMAIN s : s[k] = t[k]

\* C29: attempted_error is append-only.  After any operation, under any
\* interleaving of workers (two MarkRetry calls on the same task included),
\* the sequence stored before is a prefix of the sequence stored after, and
\* only MarkRetry extends it, by exactly the error it was given.
C29_AttemptedErrorAppendOnly ==
    [][\A i \in TaskIds :
          (tasks[i] # NoRow /\ tasks'[i] # NoRow)
             => /\ IsPrefix(tasks[i].attempted_error, tasks'[i].attempted_error)
                /\ tasks'[i].attempted_error # tasks[i].attempted_error
                      => \E c \in 1..MaxCallers :
                            /\ MarkRetryWrite(c)
                            /\ marks[c].id = i
                            /\ tasks'[i].attempted_error
                                  = Append(tasks[i].attempted_error, marks[c].error)
                /\ \A c \in 1..MaxCallers :
                      (MarkRetryWrite(c) /\ marks[c].id = i)
                         => tasks'[i].attempted_error
                               = Append(tasks[i].attempted_error, marks[c].error)]_vars

\* C30: no task enters PROCESSING while now < its schedule_at.  Neither
\* Dequeue nor the retry worker's claim takes a PENDING task before its
\* scheduled time, so that a task Retry promoted is not run again before its
\* backoff has expired.
C30_NotBeforeScheduleAt ==
    [][\A i \in DOMAIN tasks :
          (/\ tasks'[i] # NoRow
           /\ tasks'[i].state = PROCESSING
           /\ tasks[i] = NoRow \/ tasks[i].state # PROCESSING)
              => tasks'[i].schedule_at <= now']_vars

\* C31: Dequeue(size) takes the min(size, number eligible) eligible rows with
\* the smallest created_at (no eligible row created earlier than a returned
\* one is left PENDING), sets on them only state = PROCESSING and updated_at
\* = now, and changes no other field and no other row; Retry selects its
\* rows in the same created_at order.
C31_DequeueOrderAndFrame ==
    [][Called =>
          /\ scenario.op = "dequeue" =>
                LET E == {i \in Present(tasks) :
                            tasks[i].state = PENDING /\ tasks[i].schedule_at <= now}
                IN  /\ ReturnedIds \subseteq E
                    /\ Cardinality(ReturnedIds) = Min(scenario.size, Cardinality(E))
                    /\ \A i \in ReturnedIds : \A j \in E \ ReturnedIds :
                          ~ (tasks[j].created_at < tasks[i].created_at)
                    /\ \A i \in DOMAIN tasks :
                          tasks'[i] = IF i \in ReturnedIds
                                      THEN [tasks[i] EXCEPT !.state = PROCESSING,
                                                            !.updated_at = now]
                                      ELSE tasks[i]
          /\ scenario.op = "retry" =>
                LET E == {i \in Present(tasks) :
                            /\ \/ tasks[i].state = RETRYABLE
                               \/ /\ tasks[i].state = PROCESSING
                                  /\ tasks[i].schedule_at
                                        < now - default_visibility_timeout * 1000
                            /\ tasks[i].schedule_at <= now
                            /\ tasks[i].attempt_count < max_attempts}
                IN  /\ ReturnedIds \subseteq E
                    /\ \A i \in ReturnedIds : \A j \in E \ ReturnedIds :
                          ~ (tasks[j].created_at < tasks[i].created_at)]_vars

\* Two rows were due, the call took one, the older, and the younger is
\* PENDING as it was.
C31_Witness ==
    /\ scenario.op = "dequeue"
    /\ scenario.size = 1
    /\ Len(got) = 1
    /\ \E i \in got[1].ids : \E j \in Present(tasks) \ got[1].ids :
          /\ tasks0[i].state = PENDING
          /\ tasks0[j].state = PENDING
          /\ tasks0[j].schedule_at <= NowConc
          /\ tasks0[i].created_at < tasks0[j].created_at
          /\ tasks[i].state = PROCESSING
          /\ tasks[j] = tasks0[j]

\* C32: the retry worker processes the rows Retry returned PENDING and due,
\* and only those: it moves each to PROCESSING by a state update guarded by
\* the expected state PENDING before it synthesizes it; when the primary
\* worker's Dequeue runs concurrently, at most one of the two obtains the
\* task; rows returned DISCARDED are never processed.
C32_RetryWorkerClaim ==
    /\ retrier.pc \in {"process", "claiming"}
          => \A t \in retrier.batch : t.state = PENDING
    /\ (retrier.pc = "claiming" /\ upd = NoUpdate)
          => /\ tasks[retrier.cur.id].state = PROCESSING
             /\ ~ (primary.pc = "process" /\ retrier.cur.id \in primary.batch)

\* C33: once a worker's shutdown event is set, the synthesis call that is
\* under way may finish, but the worker begins no synthesis of a further
\* item, neither of a later item of the same task nor of an item of another
\* task of its batch.
C33_NoNewItemAfterShutdown ==
    [][\A w \in shutdown : \A id \in DOMAIN tasks :
          synth'[w][id].running => synth[w][id].running]_vars

\* C34: without Resume and with one max_attempts for every Retry call, a
\* task enqueued with attempt_count 0 enters PROCESSING at most max_attempts
\* times over a run, whatever the interleaving of the primary worker, the
\* retry worker and the expirations of leases.
C34_BoundedDeliveries ==
    \A i \in Present(tasks) : entered[i] <= max_attempts

\* A row waits for Retry: it is RETRYABLE, or PROCESSING with its lease
\* expired.
AwaitsRetry(r, current_time) ==
    \/ r.state = RETRYABLE
    \/ /\ r.state = PROCESSING
       /\ r.schedule_at < current_time - retry_worker_visibility_timeout * 1000

\* C35: no task is stranded: every task that is RETRYABLE, or PROCESSING with
\* an expired lease, eventually leaves that condition, Retry moving it to
\* PENDING or DISCARDED (or a worker finishing it first) - also a task that
\* was discarded at max_attempts, resumed, dequeued and failed again.
C35_NoTaskStranded ==
    \A i \in TaskIds :
        (tasks[i] # NoRow /\ AwaitsRetry(tasks[i], now))
            ~> (tasks[i].state \in {PENDING, DISCARDED, COMPLETED, CANCELLED})

\* C36: COMPLETED and CANCELLED are absorbing: no step of any interleaving,
\* the write of a call that read the row before it was finalized included,
\* changes the state, the items or finalized_at of a row that is COMPLETED or
\* CANCELLED; a DISCARDED row changes only by the write of a Resume.
C36_TerminalAbsorbing ==
    [][\A i \in TaskIds :
          /\ (tasks[i] # NoRow /\ tasks[i].state \in {COMPLETED, CANCELLED})
                => /\ tasks'[i].state = tasks[i].state
                   /\ tasks'[i].items = tasks[i].items
                   /\ tasks'[i].finalized_at = tasks[i].finalized_at
          /\ (tasks[i] # NoRow /\ tasks[i].state = DISCARDED /\ tasks'[i] # tasks[i])
                => /\ upd # NoUpdate
                   /\ upd.id = i
                   /\ upd.kind = mark_as_resume
                   /\ upd' = NoUpdate]_vars

\* The dequeue of row id that is the latest, and the worker that made it.
Lease(id) ==
    CHOOSE k \in DOMAIN got :
        /\ id \in got[k].ids
        /\ \A j \in DOMAIN got : id \in got[j].ids => j <= k

Holder(id) == got[Lease(id)].caller

\* C37: only the current lease holder finishes a task: once Retry has
\* reclaimed a task leased to worker A and worker B has dequeued it, a
\* MarkComplete or MarkRetry of A is rejected and leaves the row as it is
\* while B holds it.
C37_OnlyLeaseHolderFinishes ==
    [][\A c \in 1..MaxCallers, k \in 1..MaxLeases, id \in TaskIds, success \in BOOLEAN :
          (/\ LeaseMark(c, k, id, success)
           /\ tasks[id].state = PROCESSING
           /\ Holder(id) # c)
              => tasks'[id] = tasks[id]]_vars

\* C38: a retry worker whose claim of a task is rejected, another worker
\* having taken the task, leaves the task as it is: it does not synthesize
\* it and changes neither its state nor its attempted_error.
C38_FailedClaimLeavesTask ==
    [][\A t \in retrier.batch :
          (RetryClaim(t) /\ update_read(tasks, t.id, _claim_task_for_processing) # "")
              => /\ tasks'[t.id] = tasks[t.id]
                 /\ retrier'.pc # "claiming"]_vars

====
